---- MODULE Spec2Model ----
(***************************************************************************)
(* crRoma-api: an authenticating proxy.  The model covers the API-key      *)
(* store (src/models/apiKeys.js), the daily usage counter                  *)
(* (src/models/usage.js), the admission guard and the forwarders           *)
(* (src/routes/proxy.js), and the OTP issuance / verification state        *)
(* machine (src/models/otps.js), all on top of one synchronous sql.js      *)
(* store (src/db.js, sql/schema.sql).                                      *)
(*                                                                         *)
(* Every request handler of the program is synchronous JavaScript up to    *)
(* the point where the upstream call is started, so one handler is one     *)
(* action.  The wall clock is the variable now (whole seconds); a handler  *)
(* reads it once.                                                          *)
(*                                                                         *)
(* Random values: crypto.randomBytes(24) secrets and 16-byte salts are     *)
(* modelled as never repeating (a fresh number per generated value); the   *)
(* 4-byte key prefix and the 6-digit OTP code are drawn from small sets    *)
(* and do repeat.                                                          *)
(***************************************************************************)
EXTENDS Integers, Sequences, FiniteSets, TLC

VARIABLES
    now,            \* wall clock, seconds since the epoch of the model
    api_keys,       \* table api_keys: sequence of rows, row id = index
    usage_daily,    \* table usage_daily: function <<user_id, date_utc>> -> count
    audits,         \* table audits: [n |-> number of rows, newest |-> newest row]
    upstream,       \* upstream calls in flight (started by a forwarder)
    issued,         \* history: what createKey returned: [key, userId, id]
    revokedOk,      \* history: ids of the keys for which revokeKey returned ok
    otps,           \* table otps: sequence of rows, row id = index
    lastOtpCache,   \* otps.js lastOtpCache: email -> NULL or <<[code, expiresAt]>>
    production,     \* config.nodeEnv === 'production'
    okIssues,       \* history: email -> set of instants at which issueOtp succeeded
    spent,          \* history: <<email, code>> verified since that code was last issued
    users,          \* table users: sequence of rows, row id = index
    disk,           \* the database file: the tables as saveDb last wrote them
    last            \* what the latest operation got and returned (reset by the clock)

vars == <<now, api_keys, usage_daily, audits, upstream, issued, revokedOk,
          otps, lastOtpCache, production, okIssues, spent, users, disk, last>>

gatewayVars == <<api_keys, usage_daily, audits, upstream, issued, revokedOk>>
otpVars == <<otps, lastOtpCache, okIssues, spent, users>>

-----------------------------------------------------------------------------
(* Bounds of the model *)

MaxKeys == 2            \* rows of api_keys
MaxAudits == 4          \* rows of audits: handled requests that write one
MaxDay == 1             \* UTC days 0..MaxDay
DefaultDailyLimit == 2  \* config.defaultDailyLimit (DEFAULT_DAILY_LIMIT, 50 when unset)

MaxOtps == 2            \* rows of otps
MaxOtpTime == 800       \* last instant of the clock in the OTP runs
MaxRateOtps == 6        \* rows of otps when only issuance is exercised
MaxRateTime == 4000     \* last instant of the clock in the issuance runs
MaxLookbackOtps == 12   \* rows of otps in the runs over more than two hours
MaxLookbackTime == 7900 \* last instant of the clock in those runs

Users == {1, 2}         \* user ids
Prefixes == {1, 2}      \* values the random 4-byte prefix takes
Emails == {1, 2}        \* email addresses
Codes == {1, 2}         \* values the random 6-digit code takes

\* SQL NULL / JavaScript undefined; a present value v is <<v>>
NULL == <<>>

-----------------------------------------------------------------------------
(* src/db.js: time helpers *)

DaySeconds == 86400

\* Faulty variant: the date never changes
toUtcDateStr_Frozen(t) == 0

\* toUtcDateStr: the UTC calendar date of an instant (the day number stands
\* for the YYYY-MM-DD string; both order and equality are preserved)
toUtcDateStr(t) == t \div DaySeconds

\* The database in memory (the sql.js Database object)
memory ==
    [api_keys |-> api_keys, usage_daily |-> usage_daily, audits |-> audits,
     otps |-> otps, users |-> users]

\* saveDb: the file is overwritten with db.export(), all tables as they are in
\* memory at the call; db is the database in memory, the result the file
saveDb(db) == db

\* The points at which a call of transact can throw: a statement of fn, the
\* COMMIT, the saveDb after the COMMIT
TransactFaults == {"fn", "commit", "save"}

\* transact: BEGIN, fn, COMMIT, saveDb; on a throw ROLLBACK (its own failure
\* swallowed) and rethrow.  before and after are the table without and with
\* the changes of fn, fail is "none" or the point of the throw; the result
\* is the table transact leaves.  When saveDb throws the COMMIT is done and
\* the ROLLBACK has nothing to undo.
transact(before, after, fail) ==
    IF fail \in {"fn", "commit"} THEN before ELSE after

-----------------------------------------------------------------------------
(* src/utils/crypto.js *)

\* scrypt is modelled as an injective function of (plaintext, salt)
scryptHash(plain, salt) == <<"scrypt", plain, salt>>

\* verifyHash: recompute and compare (timingSafeEqual of the decoded buffers)
verifyHash(plain, salt, expected) == scryptHash(plain, salt) = expected

\* The text of a key "prefix.secret": pre = 0 when nothing precedes the dot;
\* the secret <<"secret", 0>> is one no generateApiKey call ever produced.
KeyString(prefix, secret) ==
    [str |-> TRUE, pre |-> prefix, dot |-> TRUE, sec |-> secret, len |-> 41]

\* Faulty variant: the key itself is handed over as its hash
generateApiKey_PlainHash(prefix, rnd) ==
    LET key == KeyString(prefix, <<"secret", rnd>>)
    IN  [key |-> key, prefix |-> prefix, salt |-> <<"salt", rnd>>,
         hash |-> key]

\* generateApiKey: prefix = randomBytes(4) hex, secret = randomBytes(24),
\* salt = randomBytes(16); rnd numbers the call: its secret and its salt are
\* two values no other call draws
generateApiKey(prefix, rnd) ==
    LET key == KeyString(prefix, <<"secret", rnd>>)
        salt == <<"salt", rnd>>
    IN  [key |-> key, prefix |-> prefix, salt |-> salt,
         hash |-> scryptHash(key, salt)]

-----------------------------------------------------------------------------
(* src/models/apiKeys.js *)

MinKeyLength == 12

Max(S) == CHOOSE x \in S : \A y \in S : y <= x

\* findActiveByPrefix: WHERE key_prefix = ? AND revoked_at IS NULL
\*                     ORDER BY id DESC LIMIT 1
findActiveByPrefix(keys, prefix) ==
    LET ids == {i \in 1..Len(keys) :
                   keys[i].key_prefix = prefix /\ keys[i].revoked_at = NULL}
    IN  IF ids = {} THEN NULL ELSE <<keys[Max(ids)]>>

\* Faulty variant: the test on the dot is dotIdx < 0, an empty prefix passes
validateFullKey_EmptyPrefix(keys, fullKey) ==
    IF ~fullKey.str \/ fullKey.len < MinKeyLength
    THEN [ok |-> FALSE, reason |-> "format"]
    ELSE IF ~fullKey.dot
    THEN [ok |-> FALSE, reason |-> "format"]
    ELSE LET row == findActiveByPrefix(keys, fullKey.pre)
         IN  IF row = NULL THEN [ok |-> FALSE, reason |-> "not_found"]
             ELSE IF ~verifyHash(fullKey, row[1].salt, row[1].key_hash)
             THEN [ok |-> FALSE, reason |-> "mismatch"]
             ELSE [ok |-> TRUE, reason |-> "ok", keyId |-> row[1].id,
                   userId |-> row[1].user_id, prefix |-> row[1].key_prefix]

\* validateFullKey
validateFullKey(keys, fullKey) ==
    IF ~fullKey.str \/ fullKey.len < MinKeyLength
    THEN [ok |-> FALSE, reason |-> "format"]
    ELSE IF ~fullKey.dot \/ fullKey.pre = 0
    THEN [ok |-> FALSE, reason |-> "format"]
    ELSE LET row == findActiveByPrefix(keys, fullKey.pre)
         IN  IF row = NULL THEN [ok |-> FALSE, reason |-> "not_found"]
             ELSE IF ~verifyHash(fullKey, row[1].salt, row[1].key_hash)
             THEN [ok |-> FALSE, reason |-> "mismatch"]
             ELSE [ok |-> TRUE, reason |-> "ok", keyId |-> row[1].id,
                   userId |-> row[1].user_id, prefix |-> row[1].key_prefix]

\* UNIQUE (user_id, key_prefix) of sql/schema.sql
UniqueViolation(keys, userId, prefix) ==
    \E i \in 1..Len(keys) :
        keys[i].user_id = userId /\ keys[i].key_prefix = prefix

MaxAttempts == 3

\* Faulty variant: an entry without a user is not inserted
logAudit_DropsAnonymous(a, userId, type, reason) ==
    IF userId = NULL THEN a
    ELSE [n |-> a.n + 1,
          newest |-> <<[user_id |-> userId, type |-> type, reason |-> reason]>>]

\* logAudit: INSERT INTO audits (user_id, type, details); userId and the
\* reason of details are NULL or <<value>>
logAudit(a, userId, type, reason) ==
    [n |-> a.n + 1,
     newest |-> <<[user_id |-> userId, type |-> type, reason |-> reason]>>]

\* createKey, as called by POST /keys/create: up to 3 attempts, each with a
\* newly generated key; draws[i] is the prefix of attempt i
CreateKey(userId, draws) ==
    LET free == {i \in 1..MaxAttempts : ~UniqueViolation(api_keys, userId, draws[i])}
        id == Len(api_keys) + 1
    IN  /\ IF free = {}
           THEN /\ last' = [op |-> "createKey", userId |-> userId, ok |-> FALSE,
                            reason |-> "failed_to_create", key |-> NULL, id |-> 0]
                /\ UNCHANGED <<api_keys, issued, audits, disk>>
           ELSE LET attempt == CHOOSE i \in free : \A j \in free : i <= j
                    g == generateApiKey(draws[attempt], id)
                    row == [id |-> id, user_id |-> userId, key_prefix |-> g.prefix,
                            key_hash |-> g.hash, salt |-> g.salt,
                            revoked_at |-> NULL, last_used_at |-> NULL]
                IN  /\ api_keys' = Append(api_keys, row)
                    /\ issued' = issued \cup {[key |-> g.key, userId |-> userId, id |-> id]}
                    /\ disk' = saveDb([memory EXCEPT !.api_keys = api_keys'])
                    /\ audits' = logAudit(audits, <<userId>>, "key_create", NULL)
                    /\ last' = [op |-> "createKey", userId |-> userId, ok |-> TRUE,
                                reason |-> "ok", key |-> <<g.key>>, id |-> id]
        /\ UNCHANGED <<now, usage_daily, upstream, revokedOk, production>>
        /\ UNCHANGED otpVars

\* Faulty variant: the UPDATE does not require revoked_at IS NULL
revokeUpdate_Restamps(keys, userId, keyId, t) ==
    [i \in 1..Len(keys) |->
        IF keys[i].id = keyId /\ keys[i].user_id = userId
        THEN [keys[i] EXCEPT !.revoked_at = <<t>>]
        ELSE keys[i]]

\* Faulty variant: the UPDATE does not look at user_id
revokeUpdate_AnyUser(keys, userId, keyId, t) ==
    [i \in 1..Len(keys) |->
        IF keys[i].id = keyId /\ keys[i].revoked_at = NULL
        THEN [keys[i] EXCEPT !.revoked_at = <<t>>]
        ELSE keys[i]]

\* UPDATE api_keys SET revoked_at = ? WHERE id = ? AND user_id = ?
\*                                      AND revoked_at IS NULL
revokeUpdate(keys, userId, keyId, t) ==
    [i \in 1..Len(keys) |->
        IF keys[i].id = keyId /\ keys[i].user_id = userId /\ keys[i].revoked_at = NULL
        THEN [keys[i] EXCEPT !.revoked_at = <<t>>]
        ELSE keys[i]]

\* revokeKey's answer, read back after the UPDATE
revokeResult(keys, userId, keyId) ==
    IF ~\E i \in 1..Len(keys) : keys[i].id = keyId /\ keys[i].user_id = userId
    THEN [ok |-> FALSE, reason |-> "not_found"]
    ELSE IF keys[keyId].revoked_at = NULL
    THEN [ok |-> FALSE, reason |-> "not_revoked"]
    ELSE [ok |-> TRUE, reason |-> "ok"]

\* revokeKey, as called by POST /keys/:id/revoke
RevokeKey(userId, keyId) ==
    LET after == revokeUpdate(api_keys, userId, keyId, now)
        r == revokeResult(after, userId, keyId)
    IN  /\ api_keys' = after
        /\ disk' = saveDb([memory EXCEPT !.api_keys = after])
        /\ revokedOk' = IF r.ok THEN revokedOk \cup {keyId} ELSE revokedOk
        /\ audits' = IF r.ok THEN logAudit(audits, <<userId>>, "key_revoke", NULL)
                      ELSE logAudit(audits, <<userId>>, "key_revoke_fail", <<r.reason>>)
        /\ last' = [op |-> "revokeKey", userId |-> userId, ok |-> r.ok,
                    reason |-> r.reason, key |-> NULL, id |-> keyId]
        /\ UNCHANGED <<now, usage_daily, upstream, issued, production>>
        /\ UNCHANGED otpVars

\* touchKeyUsage: UPDATE api_keys SET last_used_at = ? WHERE id = ?
touchKeyUsage(keys, keyId, t) ==
    [i \in 1..Len(keys) |->
        IF keys[i].id = keyId THEN [keys[i] EXCEPT !.last_used_at = <<t>>]
        ELSE keys[i]]

-----------------------------------------------------------------------------
(* src/models/usage.js (the usage part of src/index.js) *)

getCountForDate(usage, userId, dateUtc) ==
    IF <<userId, dateUtc>> \in DOMAIN usage THEN usage[<<userId, dateUtc>>] ELSE 0

\* Faulty variant: the UPDATE branch of the upsert is lost
incrementForDate_InsertOnly(usage, userId, dateUtc) ==
    IF <<userId, dateUtc>> \notin DOMAIN usage
    THEN usage @@ (<<userId, dateUtc>> :> 1)
    ELSE usage

\* Faulty variant: the UPDATE sets the count instead of raising it
incrementForDate_SetsOne(usage, userId, dateUtc) ==
    IF <<userId, dateUtc>> \notin DOMAIN usage
    THEN usage @@ (<<userId, dateUtc>> :> 1)
    ELSE [usage EXCEPT ![<<userId, dateUtc>>] = 1]

\* What incrementForDate returns: 1, or Number(existing.c) + 1
incrementForDateResult(usage, userId, dateUtc) ==
    IF <<userId, dateUtc>> \notin DOMAIN usage THEN 1
    ELSE usage[<<userId, dateUtc>>] + 1

\* incrementForDate: INSERT ... count = 1, or UPDATE count = count + 1
incrementForDate(usage, userId, dateUtc) ==
    IF <<userId, dateUtc>> \notin DOMAIN usage
    THEN usage @@ (<<userId, dateUtc>> :> 1)
    ELSE [usage EXCEPT ![<<userId, dateUtc>>] = @ + 1]

getTodayCount(usage, userId, t) == getCountForDate(usage, userId, toUtcDateStr(t))

incrementToday(usage, userId, t) == incrementForDate(usage, userId, toUtcDateStr(t))

\* Faulty variant: the check reads a count taken before the requests in
\* flight were counted (here: the count of the day before)
isOverLimit_StaleCount(usage, userId, limit, t) ==
    getCountForDate(usage, userId, toUtcDateStr(t) - 1) >= limit

\* Faulty variant: > instead of >=
isOverLimit_OffByOne(usage, userId, limit, t) ==
    getTodayCount(usage, userId, t) > limit

isOverLimit(usage, userId, limit, t) == getTodayCount(usage, userId, t) >= limit

-----------------------------------------------------------------------------
(* src/config.js *)

\* Faulty variant: /redoc is missing from the deny-list
blockedInternalDocsPaths_NoRedoc ==
    {<<"/", "openapi.json">>, <<"/", "docs">>}

\* A request path is the sequence of its pieces, "/docs" = <<"/", "docs">>
blockedInternalDocsPaths ==
    {<<"/", "openapi.json">>, <<"/", "docs">>, <<"/", "redoc">>}

normalizeInternalPath(reqPath) ==
    IF Len(reqPath) > 0 /\ reqPath[1] = "/" THEN reqPath ELSE <<"/">> \o reqPath

-----------------------------------------------------------------------------
(* src/routes/proxy.js *)

\* Faulty variant: at 00:00:00.000 the midnight taken is the one just reached
secondsUntilNextUtcMidnight_SameInstant(ms) ==
    LET next == ((ms + DaySeconds * 1000 - 1) \div (DaySeconds * 1000))
                    * (DaySeconds * 1000)
        diff == (next - ms) \div 1000
    IN  IF diff > 0 THEN diff ELSE 0

\* secondsUntilNextUtcMidnight: d is an instant in milliseconds; next is
\* Date.UTC(year, month, date + 1), the start of the following UTC day
secondsUntilNextUtcMidnight(ms) ==
    LET next == (ms \div (DaySeconds * 1000) + 1) * (DaySeconds * 1000)
        diff == (next - ms) \div 1000
    IN  IF diff > 0 THEN diff ELSE 0

\* Faulty variant: the quota check is skipped
proxyAuthGuard_NoQuota(keys, usage, t, path, apiKey) ==
    LET reqPath == normalizeInternalPath(IF path = <<>> THEN <<"/">> ELSE path)
    IN  IF reqPath \in blockedInternalDocsPaths
        THEN [next |-> FALSE, status |-> 404, reason |-> "docs", validated |-> FALSE,
              userId |-> 0, keyId |-> 0,
              body |-> <<[error |-> "Not Found", reason |-> NULL]>>]
        ELSE IF apiKey = NULL
        THEN [next |-> FALSE, status |-> 401, reason |-> "missing_key",
              validated |-> FALSE, userId |-> 0, keyId |-> 0,
              body |-> <<[error |-> "Missing X-API-Key header", reason |-> NULL]>>]
        ELSE LET v == validateFullKey(keys, apiKey[1])
             IN  IF ~v.ok
                 THEN [next |-> FALSE, status |-> 401, reason |-> v.reason,
                       validated |-> TRUE, userId |-> 0, keyId |-> 0,
                       body |-> <<[error |-> "Invalid API key",
                                   reason |-> <<v.reason>>]>>]
                 ELSE [next |-> TRUE, status |-> 0, reason |-> "hit",
                       validated |-> TRUE, userId |-> v.userId, keyId |-> v.keyId,
                       body |-> NULL]

\* proxyAuthGuard: the decision, in the order of the code.  status and body
\* are what res.status(..).json(..) sends (body NULL: nothing sent, next()
\* is called); reason is the reason of the audit entry.  apiKey is the
\* X-API-Key header: NULL when absent, else <<text>>.
proxyAuthGuard(keys, usage, t, path, apiKey) ==
    LET reqPath == normalizeInternalPath(IF path = <<>> THEN <<"/">> ELSE path)
    IN  IF reqPath \in blockedInternalDocsPaths
        THEN [next |-> FALSE, status |-> 404, reason |-> "docs", validated |-> FALSE,
              userId |-> 0, keyId |-> 0,
              body |-> <<[error |-> "Not Found", reason |-> NULL]>>]
        ELSE IF apiKey = NULL
        THEN [next |-> FALSE, status |-> 401, reason |-> "missing_key",
              validated |-> FALSE, userId |-> 0, keyId |-> 0,
              body |-> <<[error |-> "Missing X-API-Key header", reason |-> NULL]>>]
        ELSE LET v == validateFullKey(keys, apiKey[1])
             IN  IF ~v.ok
                 THEN [next |-> FALSE, status |-> 401, reason |-> v.reason,
                       validated |-> TRUE, userId |-> 0, keyId |-> 0,
                       body |-> <<[error |-> "Invalid API key",
                                   reason |-> <<v.reason>>]>>]
                 ELSE IF isOverLimit(usage, v.userId, DefaultDailyLimit, t)
                 THEN [next |-> FALSE, status |-> 429, reason |-> "quota",
                       validated |-> TRUE, userId |-> v.userId, keyId |-> v.keyId,
                       body |-> <<[error |-> "Daily quota exceeded", reason |-> NULL,
                                   count |-> getCountForDate(usage, v.userId,
                                                             toUtcDateStr(t)),
                                   limit |-> DefaultDailyLimit,
                                   reset_seconds |->
                                       secondsUntilNextUtcMidnight(t * 1000)]>>]
                 ELSE [next |-> TRUE, status |-> 0, reason |-> "hit",
                       validated |-> TRUE, userId |-> v.userId, keyId |-> v.keyId,
                       body |-> NULL]

BodyMethods == {"POST", "PUT", "PATCH", "DELETE"}

\* Which forwarder the router hands an admitted request to: forwardBody
\* forwards JSON and form bodies itself and defers everything else to proxy
Forwarder(req) ==
    IF req.method \in BodyMethods /\ req.ctype \in {"json", "form"}
    THEN "forwardBody" ELSE "proxy"

\* The names of the headers of a request, as Node hands them over in
\* req.headers (lower case)
RequestHeaders(req, apiKey) ==
    {"host", "accept"}
    \cup (IF apiKey = NULL THEN {} ELSE {"x-api-key"})
    \cup (IF req.ctype = "none" THEN {} ELSE {"content-type", "content-length"})

\* The headers of the upstream request of the streaming path: http-proxy
\* copies req.headers (xfwd adds x-forwarded-*), onProxyReq removes the key
\* header and sets x-real-ip
onProxyReq(headers) ==
    ((headers \cup {"x-forwarded-for"}) \ {"x-api-key", "X-API-Key"})
        \cup {"x-real-ip"}

\* Faulty variant: the key header is not deleted
forwardBodyHeaders_KeepsKey(headers) ==
    (headers \ {"host", "content-length", "transfer-encoding"})
        \cup {"content-type", "content-length", "x-real-ip"}

\* The headers of the upstream request of the re-encoding path: forwardBody
\* copies req.headers, deletes five names and sets three
forwardBodyHeaders(headers) ==
    (headers \ {"x-api-key", "X-API-Key", "host", "content-length",
                "transfer-encoding"})
        \cup {"content-type", "content-length", "x-real-ip"}

\* Texts are sequences of characters; "U+00E9" is a character outside ASCII
\* (two bytes in UTF-8)
RECURSIVE join(_, _)
join(parts, sep) ==
    IF parts = <<>> THEN <<>>
    ELSE IF Len(parts) = 1 THEN parts[1]
    ELSE parts[1] \o sep \o join(Tail(parts), sep)

\* JSON.stringify of an object of string members
JSONstringify(obj) ==
    <<"{">>
    \o join([i \in 1..Len(obj) |->
                <<"\"", obj[i].k, "\"", ":", "\"", obj[i].v, "\"">>], <<",">>)
    \o <<"}">>

\* querystring escaping: an ASCII letter stays, other characters become the
\* %XX of their UTF-8 bytes
qsEscape(ch) == IF ch = "U+00E9" THEN <<"%", "C", "3", "%", "A", "9">> ELSE <<ch>>

\* qs.stringify of an object of string members
qsStringify(obj) ==
    join([i \in 1..Len(obj) |-> qsEscape(obj[i].k) \o <<"=">> \o qsEscape(obj[i].v)],
         <<"&">>)

\* Buffer.byteLength: the number of bytes of the UTF-8 encoding
RECURSIVE byteLength(_)
byteLength(str) ==
    IF str = <<>> THEN 0
    ELSE (IF Head(str) = "U+00E9" THEN 2 ELSE 1) + byteLength(Tail(str))

\* forwardBody for a request it handles itself: the options and the body of
\* the upstream request.  req.headers maps the names of the caller's headers
\* to their values, req.body is the object the body parsers left.
forwardBody(req) ==
    LET bodyStr == IF req.ctype = "json" THEN JSONstringify(req.body)
                   ELSE qsStringify(req.body)
        headers == [n \in forwardBodyHeaders(DOMAIN req.headers) |->
                       IF n = "content-type" THEN req.headers["content-type"]
                       ELSE IF n = "content-length" THEN byteLength(bodyStr)
                       ELSE IF n = "x-real-ip" THEN "remoteAddress"
                       ELSE req.headers[n]]
    IN  [method |-> req.method, headers |-> headers,
         written |-> IF headers["content-length"] > 0 THEN bodyStr ELSE <<>>]

\* The response object of the caller before anything is written to it
\* (heads counts the response heads put on the wire, xuser is the value of
\* its header x-authproxy-user)
NewResponse ==
    [statusCode |-> 200, headersSent |-> FALSE, ended |-> FALSE,
     destroyed |-> FALSE, heads |-> 0, body |-> NULL, xuser |-> NULL]

\* The upstream call a forwarder starts: one request, awaiting the answer
StartUpstream(id, userId, req, apiKey) ==
    [id |-> id, userId |-> userId, via |-> Forwarder(req),
     headers |-> IF Forwarder(req) = "forwardBody"
                 THEN forwardBodyHeaders(RequestHeaders(req, apiKey))
                 ELSE onProxyReq(RequestHeaders(req, apiKey)),
     phase |-> "sent", alive |-> TRUE, pendReq |-> FALSE, pendRes |-> FALSE,
     timedOut |-> FALSE, failed |-> NULL, up |-> NULL, clientGone |-> FALSE,
     res |-> NewResponse]

\* One proxied request: proxyAuthGuard, then (on next()) the forwarder
\* starts the upstream call
ProxyRequest(req, apiKey) ==
    LET g == proxyAuthGuard(api_keys, usage_daily, now, req.path, apiKey)
        id == audits.n + 1
    IN  /\ IF g.next
           THEN /\ usage_daily' = incrementToday(usage_daily, g.userId, now)
                /\ disk' = saveDb([memory EXCEPT !.usage_daily = usage_daily'])
                /\ api_keys' = touchKeyUsage(api_keys, g.keyId, now)
                /\ audits' = logAudit(audits, <<g.userId>>, "proxy_hit", NULL)
                /\ upstream' = upstream \cup
                       {StartUpstream(id, g.userId, req, apiKey)}
           ELSE /\ audits' = logAudit(audits,
                                      IF g.userId = 0 THEN NULL ELSE <<g.userId>>,
                                      "proxy_block", <<g.reason>>)
                /\ UNCHANGED <<usage_daily, api_keys, upstream, disk>>
        /\ last' = [op |-> "proxy", id |-> id, path |-> req.path, method |-> req.method,
                    key |-> apiKey, status |-> g.status, reason |-> g.reason,
                    validated |-> g.validated, forwarded |-> g.next,
                    userId |-> g.userId, body |-> g.body]
        /\ UNCHANGED <<now, issued, revokedOk, production>>
        /\ UNCHANGED otpVars

\* The upstream answers with an HTTP status: it is relayed to the caller
UpstreamResponds(c, status) ==
    /\ c \in upstream
    /\ upstream' = upstream \ {c}
    /\ last' = [op |-> "relay", id |-> c.id, status |-> status, userId |-> c.userId]
    /\ UNCHANGED <<now, api_keys, usage_daily, audits, issued, revokedOk,
                   production, disk>>
    /\ UNCHANGED otpVars

\* The upstream call fails (connection error, or the timeout destroys it):
\* onError / upstreamReq.on('error') answer 502
UpstreamFails(c, why) ==
    /\ c \in upstream
    /\ upstream' = upstream \ {c}
    /\ last' = [op |-> "upstream_error", id |-> c.id, status |-> 502,
                userId |-> c.userId, why |-> why]
    /\ UNCHANGED <<now, api_keys, usage_daily, audits, issued, revokedOk,
                   production, disk>>
    /\ UNCHANGED otpVars

-----------------------------------------------------------------------------
(* The life of one upstream call, event by event.  The events come from    *)
(* Node (the socket, the timer); what they do to the caller's response is  *)
(* the code of the callbacks in src/routes/proxy.js.                       *)

\* The value an upstream puts in a header x-authproxy-user of its own: one
\* that is no user id of the gateway
UpstreamOwnUser == <<0>>

\* The upstream's response head arrives (own is its header
\* x-authproxy-user, NULL when it sends none).  forwardBody's response
\* callback copies the status and the headers to the caller's response, then
\* sets x-authproxy-user, then pipes the body; nothing is on the wire before
\* the first chunk
onUpstreamResponse(res, status, own, userId) ==
    [res EXCEPT !.statusCode = status, !.xuser = <<userId>>]

\* proxy.onProxyRes: res.setHeader('x-authproxy-user', userId)
onProxyRes(res, userId) == [res EXCEPT !.xuser = <<userId>>]

\* The streaming path: http-proxy emits proxyRes (onProxyRes runs) and then
\* copies the upstream's status and headers to the caller's response with
\* res.setHeader, a header of the same name replacing the one set before
proxyOnResponse(res, status, own, userId) ==
    LET r == onProxyRes(res, userId)
    IN  [r EXCEPT !.statusCode = status,
                  !.xuser = IF own = NULL THEN @ ELSE own]

\* upstreamRes.pipe(res) writes a chunk: the head goes out with it
pipeChunk(res) ==
    [res EXCEPT !.headersSent = TRUE,
                !.heads = IF res.headersSent THEN @ ELSE @ + 1,
                !.body = <<[upstream |-> TRUE]>>]

\* upstreamRes.pipe(res) ends the response at the end of the upstream's body
pipeEnd(res) ==
    [res EXCEPT !.headersSent = TRUE,
                !.heads = IF res.headersSent THEN @ ELSE @ + 1,
                !.body = <<[upstream |-> TRUE]>>,
                !.ended = TRUE]

\* res.statusCode = 502; res.end(JSON.stringify({ error: msg }))
write502(res, msg) ==
    [res EXCEPT !.statusCode = 502, !.headersSent = TRUE, !.heads = @ + 1,
                !.ended = TRUE, !.body = <<[error |-> msg]>>]

\* Faulty variant: the handler does not look at res.headersSent
forwardBodyOnError_NoGuard(res, msg) == write502(res, msg)

\* forwardBody's handlers of upstreamReq 'error' and upstreamRes 'error'
forwardBodyOnError(res, msg) ==
    IF ~res.headersSent THEN write502(res, msg)
    ELSE [res EXCEPT !.destroyed = TRUE]

\* proxy.onError: res.writeHead(502, ..) throws once the head is out, and
\* the exception is swallowed before res.end is reached
proxyOnError(res) ==
    IF ~res.headersSent THEN write502(res, "Upstream proxy error")
    ELSE res

\* Faulty variant: the timer fires and the upstream request is left alone
upstreamTimeout_NoDestroy(c, alsoRes) == [c EXCEPT !.timedOut = TRUE]

\* The timeout of the upstream request fires (upstreamReq.setTimeout in
\* forwardBody, proxyTimeout on the streaming path): the request is
\* destroyed with an error, which Node emits on the request and, once the
\* response has begun, possibly on the response too
upstreamTimeout(c, alsoRes) ==
    [c EXCEPT !.timedOut = TRUE, !.alive = FALSE, !.pendReq = TRUE,
              !.pendRes = alsoRes /\ c.phase = "response" /\ c.via = "forwardBody",
              !.failed = <<c.res.headersSent>>]

\* The frame of an event of an upstream call: the call c becomes d
UpstreamEvent(c, d, ev) ==
    /\ c \in upstream
    /\ upstream' = (upstream \ {c}) \cup {d}
    /\ last' = [op |-> "upstream_event", id |-> c.id, ev |-> ev]
    /\ UNCHANGED <<now, api_keys, usage_daily, audits, issued, revokedOk,
                   production, disk>>
    /\ UNCHANGED otpVars

\* The upstream sends its response head
UpstreamAnswers(c, status, own) ==
    /\ c.alive /\ c.phase = "sent"
    /\ UpstreamEvent(c, [c EXCEPT !.phase = "response",
                                  !.up = <<[status |-> status, own |-> own]>>,
                                  !.res = IF c.via = "forwardBody"
                                          THEN onUpstreamResponse(c.res, status, own, c.userId)
                                          ELSE proxyOnResponse(c.res, status, own, c.userId)],
                     "response")

\* A chunk of the upstream's body arrives (once the caller's response is
\* closed the pipe is undone and the upstream's body is no longer read)
UpstreamData(c) ==
    /\ c.alive /\ c.phase = "response" /\ ~c.clientGone
    /\ UpstreamEvent(c, [c EXCEPT !.res = pipeChunk(c.res)], "data")

\* The upstream's body ends
UpstreamEnd(c) ==
    /\ c.alive /\ c.phase = "response" /\ ~c.clientGone
    /\ UpstreamEvent(c, [c EXCEPT !.phase = "done", !.alive = FALSE,
                                  !.res = pipeEnd(c.res)], "end")

\* The caller closes its connection while the upstream call is in flight.
\* On the streaming path http-proxy aborts the upstream request when the
\* caller's request is aborted; forwardBody listens to no event of the
\* caller's request or response, its upstream request stays as it is
clientClosed(c) ==
    IF c.via = "forwardBody" THEN [c EXCEPT !.clientGone = TRUE]
    ELSE [c EXCEPT !.clientGone = TRUE, !.alive = FALSE]

ClientCloses(c) ==
    /\ c.alive /\ ~c.clientGone
    /\ UpstreamEvent(c, clientClosed(c), "client_close")

\* The connection to the upstream fails (refused, reset): the socket is
\* gone; Node emits 'error' on the request and, once the response has
\* begun, possibly on the response too
ConnectionFails(c, alsoRes) ==
    /\ c.alive
    /\ UpstreamEvent(c, [c EXCEPT !.alive = FALSE, !.pendReq = TRUE,
                                  !.pendRes = alsoRes /\ c.phase = "response"
                                                  /\ c.via = "forwardBody",
                                  !.failed = <<c.res.headersSent>>],
                     "failure")

\* The timer of the upstream request fires
TimeoutFires(c, alsoRes) ==
    /\ c.alive /\ ~c.timedOut
    /\ UpstreamEvent(c, upstreamTimeout(c, alsoRes), "timeout")

\* 'error' is emitted on the upstream request
ReqErrorEvent(c) ==
    /\ c.pendReq
    /\ UpstreamEvent(c, [c EXCEPT !.pendReq = FALSE,
                                  !.res = IF c.via = "forwardBody"
                                          THEN forwardBodyOnError(c.res, "Upstream request error")
                                          ELSE proxyOnError(c.res)],
                     "req_error")

\* 'error' is emitted on the upstream response (forwardBody listens to it)
ResErrorEvent(c) ==
    /\ c.pendRes
    /\ UpstreamEvent(c, [c EXCEPT !.pendRes = FALSE,
                                  !.res = forwardBodyOnError(c.res, "Upstream response error")],
                     "res_error")

-----------------------------------------------------------------------------
(* src/models/otps.js *)

OTP_TTL_MINUTES == 10
OTP_MIN_RESEND_SECONDS == 120
OTP_MAX_PER_HOUR == 5
VerifyLookback == 10
HourSeconds == 3600
MinuteSeconds == 60

otpIds(rows, email) == {i \in 1..Len(rows) : rows[i].email = email}

\* Faulty variant: the two SELECTs are not restricted to the email
canSendOtp_AnyEmail(rows, email, t) ==
    LET ids == 1..Len(rows)
        wait == IF ids # {} /\ rows[Max(ids)].last_sent_at # NULL
                THEN OTP_MIN_RESEND_SECONDS - (t - rows[Max(ids)].last_sent_at[1])
                ELSE 0
        count == Cardinality({i \in ids : rows[i].created_at >= t - HourSeconds})
    IN  IF wait > 0
        THEN [ok |-> FALSE, reason |-> "rate_minute", waitSeconds |-> wait]
        ELSE IF count >= OTP_MAX_PER_HOUR
        THEN [ok |-> FALSE, reason |-> "rate_hour", waitSeconds |-> 0]
        ELSE [ok |-> TRUE, reason |-> "ok", waitSeconds |-> 0]

\* Faulty variant: the cooldown still applies at exactly 120 s
canSendOtp_Inclusive(rows, email, t) ==
    LET ids == otpIds(rows, email)
        wait == IF ids # {} /\ rows[Max(ids)].last_sent_at # NULL
                THEN OTP_MIN_RESEND_SECONDS - (t - rows[Max(ids)].last_sent_at[1])
                ELSE -1
        count == Cardinality({i \in ids : rows[i].created_at >= t - HourSeconds})
    IN  IF wait >= 0
        THEN [ok |-> FALSE, reason |-> "rate_minute", waitSeconds |-> wait]
        ELSE IF count >= OTP_MAX_PER_HOUR
        THEN [ok |-> FALSE, reason |-> "rate_hour", waitSeconds |-> 0]
        ELSE [ok |-> TRUE, reason |-> "ok", waitSeconds |-> 0]

\* Faulty variant: a sixth issuance in the hour is let through
canSendOtp_SixPerHour(rows, email, t) ==
    LET ids == otpIds(rows, email)
        wait == IF ids # {} /\ rows[Max(ids)].last_sent_at # NULL
                THEN OTP_MIN_RESEND_SECONDS - (t - rows[Max(ids)].last_sent_at[1])
                ELSE 0
        count == Cardinality({i \in ids : rows[i].created_at >= t - HourSeconds})
    IN  IF wait > 0
        THEN [ok |-> FALSE, reason |-> "rate_minute", waitSeconds |-> wait]
        ELSE IF count > OTP_MAX_PER_HOUR
        THEN [ok |-> FALSE, reason |-> "rate_hour", waitSeconds |-> 0]
        ELSE [ok |-> TRUE, reason |-> "ok", waitSeconds |-> 0]

\* canSendOtp: the cooldown is read from the newest row of the email
\* (ORDER BY id DESC LIMIT 1), then the rows created in the last hour are counted
canSendOtp(rows, email, t) ==
    LET ids == otpIds(rows, email)
        wait == IF ids # {} /\ rows[Max(ids)].last_sent_at # NULL
                THEN OTP_MIN_RESEND_SECONDS - (t - rows[Max(ids)].last_sent_at[1])
                ELSE 0
        count == Cardinality({i \in ids : rows[i].created_at >= t - HourSeconds})
    IN  IF wait > 0
        THEN [ok |-> FALSE, reason |-> "rate_minute", waitSeconds |-> wait]
        ELSE IF count >= OTP_MAX_PER_HOUR
        THEN [ok |-> FALSE, reason |-> "rate_hour", waitSeconds |-> 0]
        ELSE [ok |-> TRUE, reason |-> "ok", waitSeconds |-> 0]

\* What issueOtp does to the store and the cache; code is the value
\* generateOtpCode draws, the salt is fresh
issueOtpWrites(email, code) ==
    LET check == canSendOtp(otps, email, now)
        id == Len(otps) + 1
        expiresAt == now + OTP_TTL_MINUTES * MinuteSeconds
        row == [id |-> id, email |-> email, code_hash |-> scryptHash(code, id),
                salt |-> id, expires_at |-> expiresAt, created_at |-> now,
                last_sent_at |-> <<now>>, consumed_at |-> NULL]
    IN  IF ~check.ok
        THEN UNCHANGED <<otps, lastOtpCache, okIssues, spent, disk>>
        ELSE /\ otps' = Append(otps, row)
             /\ disk' = saveDb([memory EXCEPT !.otps = otps'])
             /\ lastOtpCache' = [lastOtpCache EXCEPT
                                    ![email] = <<[code |-> code, expiresAt |-> expiresAt]>>]
             /\ okIssues' = [okIssues EXCEPT ![email] = @ \cup {now}]
             /\ spent' = spent \ {<<email, code>>}

\* What issueOtp returns
issueOtpResult(email, code) ==
    LET check == canSendOtp(otps, email, now)
    IN  IF ~check.ok
        THEN [ok |-> FALSE, reason |-> check.reason,
              waitSeconds |-> check.waitSeconds, code |-> NULL]
        ELSE [ok |-> TRUE, reason |-> "ok", waitSeconds |-> 0, code |-> <<code>>]

\* issueOtp
IssueOtp(email, code) ==
    LET r == issueOtpResult(email, code)
    IN  /\ issueOtpWrites(email, code)
        /\ last' = [op |-> "issueOtp", email |-> email,
                    ok |-> r.ok, reason |-> r.reason,
                    waitSeconds |-> r.waitSeconds, code |-> r.code]
        /\ UNCHANGED <<now, production, users>>
        /\ UNCHANGED gatewayVars

\* An email text that isValidEmail rejects
InvalidEmail == 0

\* sendOtpEmail: delivered says whether the Mailtrap token is configured and
\* client.send fulfils; every failure is caught and answered as a debug send
sendOtpEmail(code, delivered) ==
    IF delivered
    THEN [ok |-> TRUE, debug |-> FALSE, code |-> NULL]
    ELSE [ok |-> TRUE, debug |-> TRUE, code |-> <<code>>]

\* POST /auth/login: the page rendered (info.code is the OTP the page shows)
PostLogin(email, code, delivered) ==
    IF email = InvalidEmail
    THEN /\ last' = [op |-> "login", email |-> email, status |-> 400,
                     page |-> "login", error |-> <<"invalid_email">>, info |-> NULL,
                     issued |-> FALSE, delivered |-> delivered]
         /\ UNCHANGED <<now, production, disk>>
         /\ UNCHANGED gatewayVars
         /\ UNCHANGED otpVars
    ELSE LET r == issueOtpResult(email, code)
             mail == sendOtpEmail(code, delivered)
         IN  /\ issueOtpWrites(email, code)
             /\ IF ~r.ok
                THEN /\ audits' = logAudit(audits, NULL, "otp_send_block", <<r.reason>>)
                     /\ last' = [op |-> "login", email |-> email, status |-> 429,
                                 page |-> "login", error |-> <<r.reason>>, info |-> NULL,
                                 issued |-> FALSE, delivered |-> delivered]
                ELSE /\ audits' = logAudit(audits, NULL, "otp_send", NULL)
                     /\ last' = [op |-> "login", email |-> email, status |-> 200,
                                 page |-> "verify", error |-> NULL,
                                 info |-> <<[debug |-> mail.debug /\ mail.code # NULL,
                                             code |-> IF mail.debug THEN mail.code
                                                      ELSE NULL]>>,
                                 issued |-> TRUE, delivered |-> delivered]
             /\ UNCHANGED <<now, production, api_keys, usage_daily, upstream,
                            issued, revokedOk, users>>

(* src/models/users.js *)

\* getUserByEmail: SELECT * FROM users WHERE email = ?
getUserByEmail(us, email) ==
    LET ids == {i \in 1..Len(us) : us[i].email = email}
    IN  IF ids = {} THEN NULL ELSE <<us[CHOOSE i \in ids : \A j \in ids : i <= j]>>

\* createUser: INSERT INTO users (email) (the table after the insert)
createUser(us, email) ==
    Append(us, [id |-> Len(us) + 1, email |-> email, last_login_at |-> NULL])

\* Faulty variant: the lookup is skipped (and email is not UNIQUE)
findOrCreateUserByEmail_AlwaysCreate(us, email) ==
    LET t == createUser(us, email)
    IN  [users |-> t, user |-> t[Len(t)]]

\* findOrCreateUserByEmail: the table afterwards, and the row returned
findOrCreateUserByEmail(us, email) ==
    IF getUserByEmail(us, email) # NULL
    THEN [users |-> us, user |-> getUserByEmail(us, email)[1]]
    ELSE LET t == createUser(us, email)
         IN  [users |-> t, user |-> getUserByEmail(t, email)[1]]

\* updateLastLogin: UPDATE users SET last_login_at = ? WHERE id = ?
updateLastLogin(us, userId, t) ==
    [i \in 1..Len(us) |-> IF us[i].id = userId
                          THEN [us[i] EXCEPT !.last_login_at = <<t>>]
                          ELSE us[i]]

\* Faulty variant: LIMIT 4
verifyCandidates_LimitFour(rows, email) ==
    LET open == {i \in otpIds(rows, email) : rows[i].consumed_at = NULL}
    IN  {i \in open : Cardinality({j \in open : j > i}) < 4}

\* SELECT ... WHERE email = ? AND consumed_at IS NULL ORDER BY id DESC LIMIT 10
verifyCandidates(rows, email) ==
    LET open == {i \in otpIds(rows, email) : rows[i].consumed_at = NULL}
    IN  {i \in open : Cardinality({j \in open : j > i}) < VerifyLookback}

\* Faulty variant: only the newest unconsumed row is compared with the code
verifyOtp_NewestOnly(rows, cache, prod, email, code, t) ==
    LET records == verifyCandidates(rows, email)
        hits == {i \in records :
                    /\ i = Max(records)
                    /\ ~(rows[i].expires_at < t)
                    /\ scryptHash(code, rows[i].salt) = rows[i].code_hash}
    IN  IF records = {} THEN [ok |-> FALSE, reason |-> "not_found", id |-> 0]
        ELSE IF hits # {} THEN [ok |-> TRUE, reason |-> "ok", id |-> Max(hits)]
        ELSE IF ~prod /\ cache[email] # NULL /\ cache[email][1].code = code
        THEN [ok |-> TRUE, reason |-> "ok", id |-> Max(records)]
        ELSE [ok |-> FALSE, reason |-> "invalid_code", id |-> 0]

\* Faulty variant: the fallback to the cache is not limited to development
verifyOtp_FallbackAlways(rows, cache, prod, email, code, t) ==
    LET records == verifyCandidates(rows, email)
        hits == {i \in records :
                    /\ ~(rows[i].expires_at < t)
                    /\ scryptHash(code, rows[i].salt) = rows[i].code_hash}
    IN  IF records = {} THEN [ok |-> FALSE, reason |-> "not_found", id |-> 0]
        ELSE IF hits # {} THEN [ok |-> TRUE, reason |-> "ok", id |-> Max(hits)]
        ELSE IF cache[email] # NULL /\ cache[email][1].code = code
        THEN [ok |-> TRUE, reason |-> "ok", id |-> Max(records)]
        ELSE [ok |-> FALSE, reason |-> "invalid_code", id |-> 0]

\* verifyOtp: which row, if any, the supplied code is matched to
verifyOtp(rows, cache, prod, email, code, t) ==
    LET records == verifyCandidates(rows, email)
        hits == {i \in records :
                    /\ ~(rows[i].expires_at < t)
                    /\ (scryptHash(code, rows[i].salt) = rows[i].code_hash
                        \/ verifyHash(code, rows[i].salt, rows[i].code_hash))}
    IN  IF records = {} THEN [ok |-> FALSE, reason |-> "not_found", id |-> 0]
        ELSE IF hits # {} THEN [ok |-> TRUE, reason |-> "ok", id |-> Max(hits)]
        ELSE IF ~prod /\ cache[email] # NULL /\ cache[email][1].code = code
        THEN [ok |-> TRUE, reason |-> "ok", id |-> Max(records)]
        ELSE [ok |-> FALSE, reason |-> "invalid_code", id |-> 0]

\* verifyOtp, with the UPDATE otps SET consumed_at = ? WHERE id = ?
VerifyOtp(email, code) ==
    LET r == verifyOtp(otps, lastOtpCache, production, email, code, now)
    IN  /\ otps' = IF r.ok THEN [otps EXCEPT ![r.id].consumed_at = <<now>>] ELSE otps
        /\ spent' = IF r.ok THEN spent \cup {<<email, code>>} ELSE spent
        /\ last' = [op |-> "verifyOtp", email |-> email, code |-> code,
                    ok |-> r.ok, reason |-> r.reason, id |-> r.id]
        /\ disk' = IF r.ok THEN saveDb([memory EXCEPT !.otps = otps']) ELSE disk
        /\ UNCHANGED <<now, production, lastOtpCache, okIssues, users>>
        /\ UNCHANGED gatewayVars

\* An OTP text that isValidOtp rejects (not 6 digits after sanitizeOtp)
InvalidOtp == 0

\* POST /auth/verify: verifyOtp, then the user of the email is looked up or
\* created, its last login is set, and the session is for its id
PostVerify(email, code) ==
    IF email = InvalidEmail \/ code = InvalidOtp
    THEN /\ last' = [op |-> "verify", email |-> email, code |-> code, status |-> 400,
                     ok |-> FALSE, reason |-> "invalid_input", userId |-> 0]
         /\ UNCHANGED <<now, production, disk>>
         /\ UNCHANGED gatewayVars
         /\ UNCHANGED otpVars
    ELSE LET r == verifyOtp(otps, lastOtpCache, production, email, code, now)
             found == findOrCreateUserByEmail(users, email)
             user == found.user
         IN  /\ otps' = IF r.ok THEN [otps EXCEPT ![r.id].consumed_at = <<now>>] ELSE otps
             /\ spent' = IF r.ok THEN spent \cup {<<email, code>>} ELSE spent
             /\ IF ~r.ok
                THEN /\ audits' = logAudit(audits, NULL, "otp_verify_fail", <<r.reason>>)
                     /\ users' = users
                     /\ disk' = disk
                     /\ last' = [op |-> "verify", email |-> email, code |-> code,
                                 status |-> 400, ok |-> FALSE, reason |-> r.reason,
                                 userId |-> 0]
                ELSE /\ users' = updateLastLogin(found.users, user.id, now)
                     /\ disk' = saveDb([memory EXCEPT !.otps = otps',
                                                      !.users = found.users])
                     /\ audits' = logAudit(audits, <<user.id>>, "otp_verify", NULL)
                     /\ last' = [op |-> "verify", email |-> email, code |-> code,
                                 status |-> 302, ok |-> TRUE, reason |-> "ok",
                                 userId |-> user.id]
             /\ UNCHANGED <<now, production, lastOtpCache, okIssues, api_keys,
                            usage_daily, upstream, issued, revokedOk>>

-----------------------------------------------------------------------------
(* The operations when the store fails: fail is the point at which transact *)
(* throws ("touch": the UPDATE of touchKeyUsage throws).  The error leaves  *)
(* the handler: Express answers 500, POST /auth/login and /auth/verify      *)
(* catch it and render the page with status 500.                           *)

\* The table createKey's loop leaves inside its transaction
createKeyInserted(keys, userId, draws) ==
    LET free == {i \in 1..MaxAttempts : ~UniqueViolation(keys, userId, draws[i])}
        id == Len(keys) + 1
    IN  IF free = {} THEN keys
        ELSE LET attempt == CHOOSE i \in free : \A j \in free : i <= j
                 g == generateApiKey(draws[attempt], id)
             IN  Append(keys, [id |-> id, user_id |-> userId, key_prefix |-> g.prefix,
                               key_hash |-> g.hash, salt |-> g.salt,
                               revoked_at |-> NULL, last_used_at |-> NULL])

\* POST /keys/create when createKey throws: with "fn" the INSERT of the
\* first attempt that does not collide throws an error that is not UNIQUE
CreateKeyThrows(userId, draws, fail) ==
    /\ fail \in TransactFaults
    /\ fail = "fn" => createKeyInserted(api_keys, userId, draws) # api_keys
    /\ api_keys' = transact(api_keys, createKeyInserted(api_keys, userId, draws), fail)
    /\ last' = [op |-> "throw", of |-> "createKey", fail |-> fail, status |-> 500,
                userId |-> userId]
    /\ UNCHANGED <<now, usage_daily, audits, upstream, issued, revokedOk, production, disk>>
    /\ UNCHANGED otpVars

\* POST /keys/:id/revoke when revokeKey throws
RevokeKeyThrows(userId, keyId, fail) ==
    /\ fail \in TransactFaults
    /\ api_keys' = transact(api_keys, revokeUpdate(api_keys, userId, keyId, now), fail)
    /\ last' = [op |-> "throw", of |-> "revokeKey", fail |-> fail, status |-> 500,
                userId |-> userId]
    /\ UNCHANGED <<now, usage_daily, audits, upstream, issued, revokedOk, production, disk>>
    /\ UNCHANGED otpVars

\* proxyAuthGuard when, for a request that passed its checks, incrementToday
\* throws, or touchKeyUsage throws after the increment: the lines after the
\* throw (logAudit, next()) are not reached
ProxyRequestThrows(req, apiKey, fail) ==
    LET g == proxyAuthGuard(api_keys, usage_daily, now, req.path, apiKey)
    IN  /\ g.next
        /\ fail \in TransactFaults \cup {"touch"}
        /\ usage_daily' = IF fail = "touch"
                          THEN incrementToday(usage_daily, g.userId, now)
                          ELSE transact(usage_daily,
                                        incrementToday(usage_daily, g.userId, now), fail)
        /\ disk' = IF fail = "touch"
                   THEN saveDb([memory EXCEPT !.usage_daily = usage_daily'])
                   ELSE disk
        /\ last' = [op |-> "throw",
                    of |-> IF fail = "touch" THEN "touchKeyUsage" ELSE "incrementForDate",
                    fail |-> fail, status |-> 500, userId |-> g.userId]
        /\ UNCHANGED <<now, api_keys, audits, upstream, issued, revokedOk, production>>
        /\ UNCHANGED otpVars

\* POST /auth/login when issueOtp throws in its transact: the cache is not
\* set, the catch audits otp_send_error and renders the login page
PostLoginThrows(email, code, fail) ==
    LET id == Len(otps) + 1
        row == [id |-> id, email |-> email, code_hash |-> scryptHash(code, id),
                salt |-> id, expires_at |-> now + OTP_TTL_MINUTES * MinuteSeconds,
                created_at |-> now, last_sent_at |-> <<now>>, consumed_at |-> NULL]
    IN  /\ fail \in TransactFaults
        /\ canSendOtp(otps, email, now).ok
        /\ otps' = transact(otps, Append(otps, row), fail)
        /\ audits' = logAudit(audits, NULL, "otp_send_error", NULL)
        /\ last' = [op |-> "throw", of |-> "issueOtp", fail |-> fail, status |-> 500,
                    userId |-> 0]
        /\ UNCHANGED <<now, production, lastOtpCache, okIssues, spent, users, disk>>
        /\ UNCHANGED <<api_keys, usage_daily, upstream, issued, revokedOk>>

\* POST /auth/verify when, after verifyOtp succeeded for an email without a
\* user, createUser throws: the catch renders the verify page
PostVerifyThrows(email, code, fail) ==
    LET r == verifyOtp(otps, lastOtpCache, production, email, code, now)
    IN  /\ fail \in TransactFaults
        /\ r.ok /\ getUserByEmail(users, email) = NULL
        /\ otps' = [otps EXCEPT ![r.id].consumed_at = <<now>>]
        /\ spent' = spent \cup {<<email, code>>}
        /\ users' = transact(users, createUser(users, email), fail)
        /\ disk' = saveDb([memory EXCEPT !.otps = otps'])
        /\ last' = [op |-> "throw", of |-> "createUser", fail |-> fail, status |-> 500,
                    userId |-> 0]
        /\ UNCHANGED <<now, production, lastOtpCache, okIssues>>
        /\ UNCHANGED gatewayVars

-----------------------------------------------------------------------------
(* The clock *)

Tick(t) ==
    /\ t > now
    /\ now' = t
    /\ last' = [op |-> "tick"]
    /\ UNCHANGED <<production, disk>>
    /\ UNCHANGED gatewayVars
    /\ UNCHANGED otpVars

-----------------------------------------------------------------------------
(* The gateway: key management and proxied requests *)

InitStore ==
    /\ now = 0
    /\ api_keys = <<>>
    /\ usage_daily = <<>>
    /\ audits = [n |-> 0, newest |-> NULL]
    /\ upstream = {}
    /\ issued = {}
    /\ revokedOk = {}
    /\ otps = <<>>
    /\ lastOtpCache = [e \in Emails |-> NULL]
    /\ okIssues = [e \in Emails |-> {}]
    /\ spent = {}
    /\ users = <<>>
    /\ disk = [api_keys |-> <<>>, usage_daily |-> <<>>,
               audits |-> [n |-> 0, newest |-> NULL], otps |-> <<>>, users |-> <<>>]
    /\ last = [op |-> "init"]

\* config.nodeEnv is 'production' unless NODE_ENV says otherwise
Init == InitStore /\ production = TRUE

\* The paths asked for: the three documentation paths of the upstream and
\* one path of its API
Paths ==
    {<<"/", "openapi.json">>, <<"/", "docs">>, <<"/", "redoc">>, <<"/", "v1", "run">>}

Requests ==
    {[path |-> p, method |-> "GET", ctype |-> "none"] : p \in Paths}
    \cup {[path |-> <<"/", "v1", "run">>, method |-> "POST", ctype |-> "json"]}

\* X-API-Key headers a caller may send: none, every key createKey has
\* returned, a well-formed text with a secret never generated, a text
\* without a dot
HeaderValues ==
    {NULL}
    \cup {<<i.key>> : i \in issued}
    \cup {<<KeyString(1, <<"secret", 0>>)>>,
          <<[KeyString(1, <<"secret", 0>>) EXCEPT !.dot = FALSE]>>}

GatewayInstants == {d * DaySeconds : d \in 0..MaxDay}

Next ==
    \/ \E u \in Users, draws \in [1..MaxAttempts -> Prefixes] :
          audits.n < MaxAudits /\ Len(api_keys) < MaxKeys /\ CreateKey(u, draws)
    \/ \E u \in Users, k \in 1..MaxKeys :
          audits.n < MaxAudits /\ RevokeKey(u, k)
    \/ \E req \in Requests, h \in HeaderValues :
          audits.n < MaxAudits /\ ProxyRequest(req, h)
    \/ \E c \in upstream, status \in {200, 500} : UpstreamResponds(c, status)
    \/ \E c \in upstream, why \in {"error", "timeout"} : UpstreamFails(c, why)
    \/ \E t \in GatewayInstants : Tick(t)

Spec == Init /\ [][Next]_vars

(* Quota rejections at instants within the day *)

\* Offsets from 00:00:00 UTC at which requests arrive
DayOffsets == {0, 1, DaySeconds - 30, DaySeconds - 1}

ResetInstants == {d * DaySeconds + o : d \in 0..MaxDay, o \in DayOffsets}

NextReset ==
    \/ \E draws \in [1..MaxAttempts -> {1}] :
          audits.n < MaxAudits /\ Len(api_keys) < MaxKeys /\ CreateKey(1, draws)
    \/ \E req \in {r \in Requests : r.method = "POST"}, h \in HeaderValues :
          audits.n < MaxAudits /\ ProxyRequest(req, h)
    \/ \E c \in upstream : UpstreamResponds(c, 200)
    \/ \E t \in ResetInstants : Tick(t)

SpecReset == Init /\ [][NextReset]_vars

(* The re-encoding path alone: the upstream request forwardBody builds *)

\* The objects the body parsers leave in req.body
ParsedBodies ==
    {<<>>,
     <<[k |-> "a", v |-> "b"]>>,
     <<[k |-> "a", v |-> "U+00E9"]>>,
     <<[k |-> "a", v |-> "b"], [k |-> "c", v |-> "U+00E9"]>>}

\* The headers of the caller: the body is framed by content-length or by
\* chunks, and curl-like clients announce it with Expect: 100-continue
CallerHeaders(ctype) ==
    {("host" :> "gateway") @@ ("x-api-key" :> "key") @@ ("content-type" :> ctype)
        @@ framing @@ expect :
        framing \in {"content-length" :> 99, "transfer-encoding" :> "chunked"},
        expect \in {<<>>, "expect" :> "100-continue"}}

ReencodeRequests ==
    UNION {{[method |-> m, ctype |-> ct, body |-> b, headers |-> h] :
               m \in BodyMethods, b \in ParsedBodies, h \in CallerHeaders(ct)} :
           ct \in {"json", "form"}}

InitReencode ==
    /\ now = 0
    /\ api_keys = <<>>
    /\ usage_daily = <<>>
    /\ audits = [n |-> 0, newest |-> NULL]
    /\ upstream = {}
    /\ issued = {}
    /\ revokedOk = {}
    /\ otps = <<>>
    /\ lastOtpCache = [e \in Emails |-> NULL]
    /\ okIssues = [e \in Emails |-> {}]
    /\ spent = {}
    /\ users = <<>>
    /\ disk = [api_keys |-> <<>>, usage_daily |-> <<>>,
               audits |-> [n |-> 0, newest |-> NULL], otps |-> <<>>, users |-> <<>>]
    /\ production = TRUE
    /\ \E req \in ReencodeRequests : last = [op |-> "request", req |-> req]

\* forwardBody builds and sends the upstream request of the admitted request
ForwardBodySends ==
    /\ last.op = "request"
    /\ last' = [op |-> "forwardBody", req |-> last.req, sent |-> forwardBody(last.req)]
    /\ UNCHANGED <<now, production, disk>>
    /\ UNCHANGED gatewayVars
    /\ UNCHANGED otpVars

NextReencode == ForwardBodySends

SpecReencode == InitReencode /\ [][NextReencode]_vars

-----------------------------------------------------------------------------
(* Forwarding, event by event: the keys of one user, and one admitted     *)
(* request per forwarding path (the calls share no state)                 *)

MaxFwdKeys == 1         \* rows of api_keys in the forwarding runs

\* The ids the calls of these runs can have (the id of a call is the number
\* of its audit entry)
FwdCallIds == 1..(MaxFwdKeys + 2)

FwdRequests ==
    {[path |-> <<"/", "v1", "run">>, method |-> "GET", ctype |-> "none"],
     [path |-> <<"/", "v1", "run">>, method |-> "POST", ctype |-> "json"]}

\* The response heads the upstream sends: a success, an error status, and a
\* success with a header x-authproxy-user of its own
UpstreamHeads ==
    {[status |-> 200, own |-> NULL], [status |-> 500, own |-> NULL],
     [status |-> 200, own |-> UpstreamOwnUser]}

NextForward ==
    \/ \E u \in {1}, draws \in {[a \in 1..MaxAttempts |-> p] : p \in Prefixes} :
          Len(api_keys) < MaxFwdKeys /\ CreateKey(u, draws)
    \/ \E req \in FwdRequests, i \in issued :
          (\A c \in upstream : c.via # Forwarder(req)) /\ ProxyRequest(req, <<i.key>>)
    \/ \E c \in upstream, a \in UpstreamHeads : UpstreamAnswers(c, a.status, a.own)
    \/ \E c \in upstream : UpstreamData(c)
    \/ \E c \in upstream : UpstreamEnd(c)
    \/ \E c \in upstream, alsoRes \in BOOLEAN : ConnectionFails(c, alsoRes)
    \/ \E c \in upstream, alsoRes \in BOOLEAN : TimeoutFires(c, alsoRes)
    \/ \E c \in upstream : ReqErrorEvent(c)
    \/ \E c \in upstream : ResErrorEvent(c)

SpecForward == Init /\ [][NextForward]_vars

\* Forwarding with callers that close their connection
NextClose ==
    \/ \E u \in {1}, draws \in {[a \in 1..MaxAttempts |-> p] : p \in Prefixes} :
          Len(api_keys) < MaxFwdKeys /\ CreateKey(u, draws)
    \/ \E req \in FwdRequests, i \in issued :
          (\A c \in upstream : c.via # Forwarder(req)) /\ ProxyRequest(req, <<i.key>>)
    \/ \E c \in upstream, a \in UpstreamHeads : UpstreamAnswers(c, a.status, a.own)
    \/ \E c \in upstream : UpstreamData(c)
    \/ \E c \in upstream : UpstreamEnd(c)
    \/ \E c \in upstream : ClientCloses(c)
    \/ \E c \in upstream, alsoRes \in BOOLEAN : TimeoutFires(c, alsoRes)
    \/ \E c \in upstream : ReqErrorEvent(c)
    \/ \E c \in upstream : ResErrorEvent(c)

SpecClose == Init /\ [][NextClose]_vars

\* Node's event loop fires an armed timer and delivers an emitted event
ForwardFairness ==
    \A id \in FwdCallIds :
        /\ WF_vars(\E c \in upstream, alsoRes \in BOOLEAN :
                       c.id = id /\ TimeoutFires(c, alsoRes))
        /\ WF_vars(\E c \in upstream : c.id = id /\ ReqErrorEvent(c))
        /\ WF_vars(\E c \in upstream : c.id = id /\ ResErrorEvent(c))

SpecForwardLive == SpecForward /\ ForwardFairness

-----------------------------------------------------------------------------
(* Properties of the gateway, checked under Spec *)

\* A step that handles one proxied request
IsProxyStep == audits'.n = audits.n + 1 /\ last'.op = "proxy"

\* The count stored for a user on the date of the clock
CountToday(usage, userId) == getCountForDate(usage, userId, toUtcDateStr(now))

\* C1: in every reachable state, every key string createKey has returned
\* whose row is not revoked validates ok, with the user id of its creator and
\* the id of its row, also when another user's key has the same prefix.
C1_IssuedKeyValidates ==
    \A i \in issued :
        api_keys[i.id].revoked_at = NULL =>
            LET v == validateFullKey(api_keys, i.key)
            IN  v.ok /\ v.userId = i.userId /\ v.keyId = i.id

\* C2: a request with a valid key on a path that is not blocked is admitted,
\* and counted, exactly when the user's count of the day is below the limit;
\* otherwise it is answered 429 (quota) and the count stays at exactly the limit.
C2_QuotaExact ==
    [][(/\ IsProxyStep
        /\ normalizeInternalPath(last'.path) \notin
               {<<"/", "openapi.json">>, <<"/", "docs">>, <<"/", "redoc">>}
        /\ last'.key # NULL
        /\ validateFullKey(api_keys, last'.key[1]).ok)
       => LET u == validateFullKey(api_keys, last'.key[1]).userId
              c == CountToday(usage_daily, u)
          IN  IF c < DefaultDailyLimit
              THEN /\ last'.forwarded
                   /\ CountToday(usage_daily', u) = c + 1
              ELSE /\ ~last'.forwarded
                   /\ last'.status = 429 /\ last'.reason = "quota"
                   /\ usage_daily' = usage_daily
                   /\ c = DefaultDailyLimit]_vars

\* C2's case: a request was just rejected for quota with the count at the limit
C2_Witness ==
    /\ last.op = "proxy" /\ last.status = 429 /\ last.reason = "quota"
    /\ CountToday(usage_daily, last.userId) = DefaultDailyLimit

\* C5: once revokeKey has returned ok for a key, validateFullKey of the
\* key's full string fails with reason not_found, and no request carrying
\* the key is admitted.
C5_RevokedKeyNotFound ==
    \A i \in issued :
        i.id \in revokedOk =>
            /\ validateFullKey(api_keys, i.key) = [ok |-> FALSE, reason |-> "not_found"]
            /\ (last.op = "proxy" /\ last.key = <<i.key>>) => ~last.forwarded

\* C6: a request for /openapi.json, /docs or /redoc is answered 404 before
\* any key validation and is never forwarded, whatever key it carries.
C6_BlockedPathNeverForwarded ==
    [][(/\ IsProxyStep
        /\ last'.path \in {<<"/", "openapi.json">>, <<"/", "docs">>, <<"/", "redoc">>})
       => /\ last'.status = 404
          /\ ~last'.forwarded /\ ~last'.validated
          /\ upstream' = upstream
          /\ usage_daily' = usage_daily
          /\ api_keys' = api_keys]_vars

\* C6's case: a blocked path was just asked for with a valid key under quota
C6_Witness ==
    /\ last.op = "proxy" /\ last.status = 404
    /\ last.path = <<"/", "redoc">>
    /\ last.key # NULL
    /\ validateFullKey(api_keys, last.key[1]).ok
    /\ CountToday(usage_daily, validateFullKey(api_keys, last.key[1]).userId)
           < DefaultDailyLimit

\* C7: an upstream call is started only by a request whose path is not
\* blocked, that carries an X-API-Key header, whose key validateFullKey
\* accepts and whose user is not over the limit; a revoked key starts none.
C7_ForwardOnlyAfterChecks ==
    [][(upstream' \ upstream # {})
       => /\ IsProxyStep
          /\ last'.forwarded
          /\ normalizeInternalPath(last'.path) \notin
                 {<<"/", "openapi.json">>, <<"/", "docs">>, <<"/", "redoc">>}
          /\ last'.key # NULL
          /\ LET v == validateFullKey(api_keys, last'.key[1])
             IN  /\ v.ok
                 /\ CountToday(usage_daily, v.userId) < DefaultDailyLimit
                 /\ \A c \in upstream' \ upstream : c.userId = v.userId
          /\ \A i \in issued :
                 last'.key = <<i.key>> => api_keys[i.id].revoked_at = NULL]_vars

\* C7's case: an upstream call of the manual forwarder is in flight
C7_Witness == \E c \in upstream : c.via = "forwardBody"

\* C10: the step that starts an upstream call has raised today's count of
\* the key's user by one, and no outcome of the call (an answer with any
\* status, an error, a timeout) changes the counts.
C10_CountedBeforeUpstream ==
    [][/\ \A c \in upstream' \ upstream :
              CountToday(usage_daily', c.userId) = CountToday(usage_daily, c.userId) + 1
       /\ (upstream \ upstream' # {}) => usage_daily' = usage_daily]_vars

\* C10's case: an upstream call has just failed and its request is counted
C10_Witness ==
    /\ last.op = "upstream_error"
    /\ CountToday(usage_daily, last.userId) = DefaultDailyLimit

\* A step in which the admission guard handles a request
IsGuardStep == last'.op = "proxy" /\ last' # last

\* A step in which POST /keys/:id/revoke handles a request
IsRevokeStep == last'.op = "revokeKey" /\ audits'.n = audits.n + 1

\* C11 as stated: every request the guard handles gets exactly one audit
\* entry, that entry carries a reason code, and the outcome of the upstream
\* call adds no entry.
C11_OneAuditWithReason ==
    [][/\ IsGuardStep => /\ audits'.n = audits.n + 1
                         /\ audits'.newest[1].reason # NULL
       /\ (upstream \ upstream' # {}) => audits' = audits]_vars

\* C11 as amended: every request the guard handles gets exactly one audit
\* entry; the entry of a blocked request is a proxy_block with the reason
\* (docs, missing_key, format, not_found, mismatch, quota), the entry of an
\* admitted request is a proxy_hit without reason code, and the outcome of
\* the upstream call adds no entry.
C11_OneAudit ==
    [][/\ IsGuardStep
          => /\ audits'.n = audits.n + 1
             /\ LET e == audits'.newest[1]
                IN  IF last'.forwarded
                    THEN /\ e.type = "proxy_hit" /\ e.reason = NULL
                         /\ e.user_id = <<last'.userId>>
                    ELSE /\ e.type = "proxy_block" /\ e.reason = <<last'.reason>>
                         /\ last'.reason \in {"docs", "missing_key", "format",
                                              "not_found", "mismatch", "quota"}
       /\ (upstream \ upstream' # {}) => audits' = audits]_vars

\* C11's case: the upstream call of an admitted request has just failed and
\* the newest audit entry is the proxy_hit of that request
C11_Witness ==
    /\ last.op = "upstream_error"
    /\ audits.n = last.id
    /\ audits.newest[1].type = "proxy_hit"

\* C12: revokeKey(u, k) on a key of u that is already revoked leaves the
\* row as it is and fails with reason not_revoked.
C12_SecondRevokeNotRevoked ==
    [][(/\ IsRevokeStep
        /\ last'.id \in 1..Len(api_keys)
        /\ api_keys[last'.id].user_id = last'.userId
        /\ api_keys[last'.id].revoked_at # NULL)
       => /\ api_keys' = api_keys
          /\ ~last'.ok /\ last'.reason = "not_revoked"]_vars

\* C13: revokeKey(u, k) on a key of another user changes no api_keys row,
\* leaves every key validating as before and returns not_found; a row's
\* revoked_at is only ever set by a revokeKey call of the row's owner.
C13_OnlyOwnerRevokes ==
    [][/\ (/\ IsRevokeStep
           /\ last'.id \in 1..Len(api_keys)
           /\ api_keys[last'.id].user_id # last'.userId)
          => /\ api_keys' = api_keys
             /\ ~last'.ok /\ last'.reason = "not_found"
             /\ \A i \in issued :
                    validateFullKey(api_keys', i.key) = validateFullKey(api_keys, i.key)
       /\ \A k \in 1..Len(api_keys) :
              (api_keys[k].revoked_at = NULL /\ api_keys'[k].revoked_at # NULL)
                  => /\ last'.op = "revokeKey"
                     /\ last'.userId = api_keys[k].user_id
                     /\ last'.id = k]_vars

\* C13's case: a user has just tried to revoke an active, validating key of
\* another user
C13_Witness ==
    /\ last.op = "revokeKey" /\ last.reason = "not_found"
    /\ last.id \in 1..Len(api_keys)
    /\ api_keys[last.id].user_id # last.userId
    /\ api_keys[last.id].revoked_at = NULL
    /\ \E i \in issued : i.id = last.id /\ validateFullKey(api_keys, i.key).ok

\* The store in which the key with this id was never created
WithoutKey(keys, id) == SelectSeq(keys, LAMBDA r : r.id # id)

\* What the caller of a request for an API path gets from the guard
GuardResponse(keys, apiKey) ==
    LET g == proxyAuthGuard(keys, usage_daily, now, <<"/", "v1", "run">>, apiKey)
    IN  [status |-> g.status, body |-> g.body]

\* A request carrying a revoked key is answered as in the store without
\* that key
RevokedAsNeverCreated ==
    \A i \in issued :
        api_keys[i.id].revoked_at # NULL =>
            GuardResponse(api_keys, <<i.key>>)
                = GuardResponse(WithoutKey(api_keys, i.id), <<i.key>>)

\* C14: a request carrying a revoked key gets the response it would get had
\* the key never been created, and that response is 401 with reason
\* not_found.
C14_RevokedLooksUnknown ==
    /\ RevokedAsNeverCreated
    /\ \A i \in issued :
           api_keys[i.id].revoked_at # NULL =>
               GuardResponse(api_keys, <<i.key>>) =
                   [status |-> 401,
                    body |-> <<[error |-> "Invalid API key",
                                reason |-> <<"not_found">>]>>]

\* C15: whatever the reason validateFullKey gives for rejecting a key
\* (format, not_found, mismatch), the caller gets one and the same response.
C15_GenericInvalidKeyResponse ==
    \A h1, h2 \in HeaderValues \ {NULL} :
        (~validateFullKey(api_keys, h1[1]).ok /\ ~validateFullKey(api_keys, h2[1]).ok)
            => GuardResponse(api_keys, h1) = GuardResponse(api_keys, h2)

\* C16: no upstream request carries the caller's X-API-Key header, on the
\* streaming path and on the re-encoding path alike; every request that
\* starts an upstream call did carry the header.
C16_KeyHeaderStripped ==
    [][\A c \in upstream' \ upstream :
           /\ last'.key # NULL
           /\ "x-api-key" \in RequestHeaders([ctype |-> "none"], last'.key)
           /\ c.headers \cap {"x-api-key", "X-API-Key"} = {}]_vars

\* C16's case: one upstream call of each path is in flight
C16_Witness ==
    \E c1, c2 \in upstream : c1.via = "proxy" /\ c2.via = "forwardBody"

\* The value is neither the text nor the secret of the key
NotPlaintext(value, key) ==
    /\ value # key /\ value # <<key>>
    /\ value # key.sec /\ value # <<key.sec>>

\* Neither text column of any row that createKey fills from the generated
\* material (key_hash, salt) is the full key or the secret of an issued key, and
\* the row of an issued key holds the salted hash of the key
NoPlaintextStored ==
    \A i \in issued :
        /\ \A k \in 1..Len(api_keys) :
               /\ NotPlaintext(api_keys[k].key_hash, i.key)
               /\ NotPlaintext(api_keys[k].salt, i.key)
        /\ api_keys[i.id].key_hash = scryptHash(i.key, api_keys[i.id].salt)
        /\ api_keys[i.id].key_prefix = i.key.pre

\* C19: no api_keys row ever holds the plaintext secret or full key of an
\* issued key, only prefix, salt and salted hash; a full key is returned by
\* the createKey call that generated it (a key never returned before) and
\* by no revokeKey call.
C19_NoPlaintextStored ==
    /\ []NoPlaintextStored
    /\ [][/\ (last'.op = "createKey" /\ last'.ok /\ last' # last)
             => /\ last'.key[1] \notin {i.key : i \in issued}
                /\ issued' = issued \cup {[key |-> last'.key[1], userId |-> last'.userId,
                                           id |-> last'.id]}
          /\ (last'.op = "createKey" /\ ~last'.ok) => last'.key = NULL
          /\ last'.op = "revokeKey" => last'.key = NULL]_vars

\* C19's case: an issued key has been used for an admitted request, and its
\* row holds the salted hash
C19_Witness ==
    \E i \in issued :
        /\ api_keys[i.id].last_used_at # NULL
        /\ verifyHash(i.key, api_keys[i.id].salt, api_keys[i.id].key_hash)

\* Key texts a caller can present: every issued key, every issued key with
\* another secret, a key of a prefix never drawn, and the malformed ones (not
\* a string, too short, no dot, nothing before the dot)
KeyTexts ==
    {i.key : i \in issued}
    \cup {[i.key EXCEPT !.sec = <<"secret", 0>>] : i \in issued}
    \cup {KeyString(3, <<"secret", 0>>),
          [KeyString(1, <<"secret", 1>>) EXCEPT !.str = FALSE],
          [KeyString(1, <<"secret", 1>>) EXCEPT !.len = 5],
          [KeyString(1, <<"secret", 1>>) EXCEPT !.dot = FALSE],
          KeyString(0, <<"secret", 1>>)}

Malformed(k) == ~k.str \/ k.len < MinKeyLength \/ ~k.dot \/ k.pre = 0

ActiveWithPrefix(keys, prefix) ==
    {i \in 1..Len(keys) : keys[i].key_prefix = prefix /\ keys[i].revoked_at = NULL}

\* C21: a failing validateFullKey answers format for a malformed text
\* (whatever the store holds), otherwise not_found when no active row has
\* the prefix, otherwise mismatch when the hash of the text differs from
\* the stored hash of the row looked up; a valid key with another secret is
\* a mismatch.
C21_ValidateClassifies ==
    \A k \in KeyTexts :
        LET v == validateFullKey(api_keys, k)
            act == ActiveWithPrefix(api_keys, k.pre)
        IN  /\ Malformed(k) <=> v.reason = "format"
            /\ Malformed(k) => validateFullKey(<<>>, k) = v
            /\ (~Malformed(k) /\ act = {}) <=> v.reason = "not_found"
            /\ (~Malformed(k) /\ act # {}
                  /\ scryptHash(k, api_keys[Max(act)].salt) # api_keys[Max(act)].key_hash)
                 <=> v.reason = "mismatch"
            /\ v.ok <=> v.reason \notin {"format", "not_found", "mismatch"}
            /\ v.ok => validateFullKey(api_keys,
                           [k EXCEPT !.sec = <<"secret", 0>>]).reason = "mismatch"

\* C21's case: a request presented an issued key with another secret, and
\* the guard got mismatch for it, while a revoked key's prefix has no row
C21_Witness ==
    /\ last.op = "proxy" /\ last.reason = "mismatch"
    /\ \E i \in issued : validateFullKey(api_keys, i.key).ok
    /\ \E i \in issued : validateFullKey(api_keys, i.key).reason = "not_found"

\* The UTC day of the clock, counted from the instants themselves
UtcDayNow == CHOOSE d \in 0..(MaxDay + 1) : d * 86400 <= now /\ now < (d + 1) * 86400

\* C22: no step deletes a usage row or lowers its count; and when a user
\* whose count reached the limit on an earlier date sends the first request
\* of a new date with a valid key, the request sees count 0 and is admitted,
\* a row with count 1 is created for the new date, and every other row is
\* left unchanged.
C22_NewDateAdmitsAgain ==
    [][/\ \A k \in DOMAIN usage_daily :
              k \in DOMAIN usage_daily' /\ usage_daily'[k] >= usage_daily[k]
       /\ (/\ IsProxyStep
           /\ normalizeInternalPath(last'.path) \notin
                  {<<"/", "openapi.json">>, <<"/", "docs">>, <<"/", "redoc">>}
           /\ last'.key # NULL
           /\ validateFullKey(api_keys, last'.key[1]).ok
           /\ LET u == validateFullKey(api_keys, last'.key[1]).userId
              IN  /\ <<u, UtcDayNow>> \notin DOMAIN usage_daily
                  /\ \E d \in 0..(UtcDayNow - 1) :
                         /\ <<u, d>> \in DOMAIN usage_daily
                         /\ usage_daily[<<u, d>>] >= DefaultDailyLimit)
          => LET u == validateFullKey(api_keys, last'.key[1]).userId
             IN  /\ getTodayCount(usage_daily, u, now) = 0
                 /\ last'.forwarded
                 /\ DOMAIN usage_daily' = DOMAIN usage_daily \cup {<<u, UtcDayNow>>}
                 /\ usage_daily'[<<u, UtcDayNow>>] = 1
                 /\ \A k \in DOMAIN usage_daily : usage_daily'[k] = usage_daily[k]]_vars

\* C22's case: the user was at the limit on day 0 and has just been admitted
\* on day 1
C22_Witness ==
    /\ last.op = "proxy" /\ last.forwarded /\ UtcDayNow = 1
    /\ <<last.userId, 0>> \in DOMAIN usage_daily
    /\ usage_daily[<<last.userId, 0>>] = DefaultDailyLimit
    /\ <<last.userId, 1>> \in DOMAIN usage_daily
    /\ usage_daily[<<last.userId, 1>>] = 1

\* The requests of a user that are in flight at the upstream
InFlight(userId) == {c \in upstream : c.userId = userId}

\* A further request of the user is admitted
AdmitsAnother(userId) ==
    \E req \in Requests, h \in HeaderValues :
        ProxyRequest(req, h) /\ last'.forwarded /\ last'.userId = userId

\* C25 (as stated): with requests of one user in flight concurrently on one
\* date, more than L requests can be admitted: when the count has reached
\* the limit L, a further request of the user can still pass the check and
\* raise the stored count above L.
C25_CountExceedsLimit ==
    \A u \in Users :
        (/\ Cardinality(InFlight(u)) >= 2
         /\ CountToday(usage_daily, u) >= DefaultDailyLimit
         /\ \E i \in issued : validateFullKey(api_keys, i.key).ok
                                /\ validateFullKey(api_keys, i.key).userId = u)
            => ENABLED AdmitsAnother(u)

\* C25 (amended): the check and the increment of a request run in one
\* synchronous handler, so also with several requests of the user in flight
\* no stored count exceeds the limit L, and a request handled with the
\* count at L is rejected and not counted.
C25_NeverAboveLimit ==
    /\ [](\A k \in DOMAIN usage_daily : usage_daily[k] <= DefaultDailyLimit)
    /\ [][(IsProxyStep /\ last'.validated
             /\ CountToday(usage_daily, last'.userId) >= DefaultDailyLimit)
          => (~last'.forwarded /\ usage_daily' = usage_daily)]_vars

\* C25's case: two requests of the user are in flight, the count is at the
\* limit, and a further request of the user has just been rejected
C25_Witness ==
    /\ last.op = "proxy" /\ last.status = 429
    /\ Cardinality(InFlight(last.userId)) >= 2
    /\ CountToday(usage_daily, last.userId) = DefaultDailyLimit

\* C33: usage_daily has one count per (user, UTC date) and no count ever
\* decreases; incrementForDate raises the count of its (user, date) by
\* exactly 1, creating it at 1 when absent, returns the new stored count and
\* touches no other count; an admitted request makes exactly one increment,
\* for its user and the date of the clock, and no other step changes the
\* table.
C33_OneIncrementPerAdmission ==
    /\ [](\A u \in Users, d \in 0..MaxDay :
            LET after == incrementForDate(usage_daily, u, d)
            IN  /\ DOMAIN after = DOMAIN usage_daily \cup {<<u, d>>}
                /\ after[<<u, d>>] = getCountForDate(usage_daily, u, d) + 1
                /\ after[<<u, d>>] = incrementForDateResult(usage_daily, u, d)
                /\ \A k \in DOMAIN usage_daily \ {<<u, d>>} : after[k] = usage_daily[k])
    /\ [][/\ \A k \in DOMAIN usage_daily :
                 k \in DOMAIN usage_daily' /\ usage_daily'[k] >= usage_daily[k]
          /\ IF IsProxyStep /\ last'.forwarded
             THEN LET k == <<last'.userId, UtcDayNow>>
                  IN  /\ DOMAIN usage_daily' = DOMAIN usage_daily \cup {k}
                      /\ usage_daily'[k]
                             = getCountForDate(usage_daily, last'.userId, UtcDayNow) + 1
                      /\ \A j \in DOMAIN usage_daily \ {k} :
                             usage_daily'[j] = usage_daily[j]
             ELSE usage_daily' = usage_daily]_vars

\* C33's case: an admitted request has just raised an existing count, the
\* user has a count of another date, and a rejected request is possible
C33_Witness ==
    /\ last.op = "proxy" /\ last.forwarded
    /\ <<last.userId, UtcDayNow>> \in DOMAIN usage_daily
    /\ usage_daily[<<last.userId, UtcDayNow>>] = 2
    /\ \E d \in 0..MaxDay : d # UtcDayNow /\ <<last.userId, d>> \in DOMAIN usage_daily

\* C34: revocation is one-way. Every step keeps every key row, with its id,
\* owner, prefix and hash, and a revoked_at that is set stays exactly as it
\* is: createKey, revokeKey, validateFullKey and touchKeyUsage neither delete
\* a row nor clear or overwrite a revocation time.
C34_RevocationOneWay ==
    [][/\ Len(api_keys') >= Len(api_keys)
       /\ \A i \in 1..Len(api_keys) :
            /\ api_keys'[i].id = api_keys[i].id
            /\ api_keys'[i].user_id = api_keys[i].user_id
            /\ api_keys'[i].key_prefix = api_keys[i].key_prefix
            /\ api_keys'[i].key_hash = api_keys[i].key_hash
            /\ api_keys[i].revoked_at # NULL =>
                   api_keys'[i].revoked_at = api_keys[i].revoked_at]_vars

\* C34's case: the owner has just tried to revoke, at a later instant, a key
\* that was revoked before
C34_Witness ==
    /\ last.op = "revokeKey"
    /\ last.id \in 1..Len(api_keys)
    /\ api_keys[last.id].user_id = last.userId
    /\ api_keys[last.id].revoked_at # NULL
    /\ api_keys[last.id].revoked_at # <<now>>

(* Properties of quota rejections, checked under SpecReset *)

\* Fractions of a second at which the clock is read
MsFractions == {0, 1, 500, 999}

\* The first UTC midnight after an instant, both in milliseconds
NextMidnightMs(ms) ==
    CHOOSE m \in {d * DaySeconds * 1000 : d \in 1..(MaxDay + 2)} :
        m > ms /\ m - ms <= DaySeconds * 1000

\* C36: the reset_seconds of a quota rejection is the whole number of
\* seconds (rounded down) from the instant of the rejection to the next UTC
\* midnight; it lies within 0..86400, is 30 at 23:59:30 and 86400 at exactly
\* 00:00:00.
C36_ResetSeconds ==
    /\ (last.op = "proxy" /\ last.status = 429) =>
          LET r == last.body[1].reset_seconds
              offset == now % DaySeconds
          IN  /\ r \in 0..86400
              /\ r = 86400 - offset
              /\ offset = 86400 - 30 => r = 30
              /\ offset = 0 => r = 86400
    /\ \A f \in MsFractions :
          LET ms == now * 1000 + f
              r == secondsUntilNextUtcMidnight(ms)
          IN  /\ r \in 0..86400
              /\ ms + r * 1000 <= NextMidnightMs(ms)
              /\ NextMidnightMs(ms) < ms + (r + 1) * 1000

\* C36's case: a request has just been rejected for quota at 23:59:30
C36_Witness ==
    /\ last.op = "proxy" /\ last.status = 429 /\ last.reason = "quota"
    /\ now % DaySeconds = 86400 - 30
    /\ last.body[1].count >= last.body[1].limit

(* Properties of the re-encoding path, checked under SpecReencode *)

\* The bytes of the serialized bodies, written out
ExpectedBytes(ctype, body) ==
    IF ctype = "json"
    THEN CASE Len(body) = 0 -> 2
           [] Len(body) = 1 -> IF body[1].v = "U+00E9" THEN 10 ELSE 9
           [] OTHER -> 18
    ELSE CASE Len(body) = 0 -> 0
           [] Len(body) = 1 -> IF body[1].v = "U+00E9" THEN 8 ELSE 3
           [] OTHER -> 12

\* The upstream request carries the re-serialized body and a content-length
\* of its byte length, and neither the caller's content-length nor its
\* transfer-encoding
BodyAndLengthRecomputed ==
    last.op = "forwardBody" =>
        /\ last.sent.headers["content-length"] = ExpectedBytes(last.req.ctype, last.req.body)
        /\ byteLength(last.sent.written) = last.sent.headers["content-length"]
        /\ last.sent.written = IF last.req.ctype = "json"
                               THEN JSONstringify(last.req.body)
                               ELSE qsStringify(last.req.body)
        /\ "transfer-encoding" \notin DOMAIN last.sent.headers

\* C37: the request forwardBody sends upstream carries the re-serialized
\* body, one content-length equal to its byte length, and none of the
\* caller's content-length, transfer-encoding and expect headers.
C37_ReencodedRequestHeaders ==
    last.op = "forwardBody" =>
        /\ BodyAndLengthRecomputed
        /\ "expect" \notin DOMAIN last.sent.headers

(* Properties of the database file, checked under Spec *)

\* What transact wrote is in the file: the file differs from the database in
\* memory at most in the audits and in the last_used_at of the key rows
TransactedOnDisk ==
    /\ disk.usage_daily = usage_daily
    /\ disk.otps = otps
    /\ disk.users = users
    /\ Len(disk.api_keys) = Len(api_keys)
    /\ \A i \in 1..Len(api_keys) :
           [disk.api_keys[i] EXCEPT !.last_used_at = NULL]
               = [api_keys[i] EXCEPT !.last_used_at = NULL]

\* C40: when a handler has returned, every change it made to the store is in
\* the database file, the audit entries, last-used stamps and last-login
\* stamps written outside transact included, also for a rejected request,
\* which runs no transaction.
C40_EveryChangeOnDisk ==
    last.op \in {"createKey", "revokeKey", "proxy"} => disk = memory

-----------------------------------------------------------------------------
(* Properties of forwarding, checked under SpecForward *)

\* The upstream call of a request has failed and every event of the
\* failure has been handled
FailureHandled(c) == c.failed # NULL /\ ~c.pendReq /\ ~c.pendRes

\* The caller has got one complete response, a structured 502
Answered502(c) ==
    /\ c.res.ended /\ c.res.heads = 1 /\ c.res.statusCode = 502
    /\ c.res.body # NULL /\ "error" \in DOMAIN c.res.body[1]

\* No request has two upstream calls, and no response head is written twice
OneCallOneHead ==
    /\ \A c, d \in upstream : c.id = d.id => c = d
    /\ \A c \in upstream : c.res.heads <= 1

\* C17 as stated: an upstream connection failure (refused, reset, timed
\* out) gives the caller exactly one response, a structured 502, with one
\* upstream request at most; whatever the order of the request-error,
\* response-error and timeout events, the response is not written twice.
C17_Single502 ==
    /\ OneCallOneHead
    /\ \A c \in upstream : FailureHandled(c) => Answered502(c)

\* C17 as amended: ... a failure before any of the upstream's response has
\* been written to the caller gives exactly one response, a structured 502;
\* after a failure that comes later the caller keeps the upstream's status
\* and gets no 502: the re-encoding path destroys the caller's connection,
\* the streaming path's handler leaves the response as it is.
C17_Single502BeforeRelay ==
    /\ OneCallOneHead
    /\ \A c \in upstream :
           FailureHandled(c) =>
               IF ~c.failed[1]
               THEN Answered502(c)
               ELSE /\ c.res.heads = 1 /\ c.res.statusCode # 502 /\ ~c.res.ended
                    /\ c.res.destroyed = (c.via = "forwardBody")

\* C17's case: the upstream's response head had arrived, the connection
\* then failed, both error events were handled, and the caller has its 502
C17_Witness ==
    \E c \in upstream :
        /\ FailureHandled(c) /\ c.phase = "response" /\ ~c.failed[1]
        /\ c.res.destroyed
        /\ Answered502(c)

\* C18: an admitted request whose upstream call has got no answer does not
\* wait forever: unless the upstream answers after all, the call is aborted
\* and the caller gets a structured 502, on either forwarding path.
C18_NoAnswerEnds ==
    \A id \in FwdCallIds :
        (\E c \in upstream : c.id = id /\ c.phase = "sent")
            ~> (\E c \in upstream :
                    /\ c.id = id
                    /\ \/ c.phase # "sent"
                       \/ ~c.alive /\ Answered502(c))

\* C18's case: on each path a call has timed out unanswered and its caller
\* has the 502
C18_Witness ==
    \E c, d \in upstream :
        /\ c.via = "proxy" /\ d.via = "forwardBody"
        /\ c.timedOut /\ c.phase = "sent" /\ ~c.alive /\ Answered502(c)
        /\ d.timedOut /\ d.phase = "sent" /\ ~d.alive /\ Answered502(d)

\* The caller of c has received a response head relayed from the upstream
Relayed(c) ==
    /\ c.up # NULL /\ c.res.headersSent
    /\ c.res.body # NULL /\ "upstream" \in DOMAIN c.res.body[1]

\* What holds of every relayed response: the status is the upstream's, and
\* x-authproxy-user is the user id of the validated key on the re-encoding
\* path, and on the streaming path when the upstream sends no such header
RelayAnnotated ==
    \A c \in upstream :
        Relayed(c) =>
            /\ c.res.statusCode = c.up[1].status
            /\ (c.via = "forwardBody" \/ c.up[1].own = NULL)
                   => c.res.xuser = <<c.userId>>

\* C23: every response relayed from the upstream has the upstream's status
\* code and the header x-authproxy-user equal to the user id of the
\* validated key, on both forwarding paths.
C23_RelayedStatusAndUser ==
    \A c \in upstream :
        Relayed(c) =>
            /\ c.res.statusCode = c.up[1].status
            /\ c.res.xuser = <<c.userId>>

(* Properties of forwarding with closing callers, checked under SpecClose *)

\* The call of the latest event, after the event
EventCall == CHOOSE c \in upstream' : c.id = last'.id

\* What holds on the streaming path: the close of the caller aborts the call
StreamingCloseAborts ==
    [][(last'.op = "upstream_event" /\ last'.ev = "client_close"
          /\ EventCall.via = "proxy") => ~EventCall.alive]_vars

\* C32: when the caller closes its connection while the upstream call of its
\* admitted request is in flight, the upstream call is aborted, on both
\* forwarding paths.
C32_ClientCloseAborts ==
    [][(last'.op = "upstream_event" /\ last'.ev = "client_close")
       => ~EventCall.alive]_vars

-----------------------------------------------------------------------------
(* The OTP login flow: issuance and verification, in both modes *)

InitOtp == InitStore /\ production \in BOOLEAN

\* The instants at which the answer of an OTP operation can change: around
\* the end of the cooldown, the expiry and the hour of every row
OtpInstants ==
    {otps[i].created_at + d : i \in 1..Len(otps),
        d \in {OTP_MIN_RESEND_SECONDS,
               OTP_TTL_MINUTES * MinuteSeconds, OTP_TTL_MINUTES * MinuteSeconds + 1}}

NextOtp ==
    \/ \E e \in Emails, c \in Codes : Len(otps) < MaxOtps /\ IssueOtp(e, c)
    \/ \E e \in Emails, c \in Codes : VerifyOtp(e, c)
    \/ \E t \in OtpInstants : t <= MaxOtpTime /\ Tick(t)

SpecOtp == InitOtp /\ [][NextOtp]_vars

(* The login page: issuance with the sending of the email, in both modes *)

MaxLoginAudits == 4     \* rows of audits in the login runs

NextLogin ==
    \/ \E e \in Emails \cup {InvalidEmail}, c \in Codes, delivered \in BOOLEAN :
          audits.n < MaxLoginAudits /\ Len(otps) < MaxOtps /\ PostLogin(e, c, delivered)
    \/ \E e \in Emails \cup {InvalidEmail}, c \in Codes \cup {InvalidOtp} :
          audits.n < MaxLoginAudits /\ PostVerify(e, c)
    \/ \E t \in OtpInstants : t <= MaxOtpTime /\ Tick(t)

SpecLogin == InitOtp /\ [][NextLogin]_vars

(* The operations with a failing store: one user with keys, one email *)

MaxFaultAudits == 3     \* rows of audits in the runs with failures

NextFaults ==
    \/ \E u \in {1}, draws \in {[a \in 1..MaxAttempts |-> p] : p \in Prefixes} :
          /\ audits.n < MaxFaultAudits
          /\ Len(createKeyInserted(api_keys, u, draws)) <= MaxFwdKeys
          /\ CreateKey(u, draws)
    \/ \E u \in {1}, draws \in {[a \in 1..MaxAttempts |-> p] : p \in Prefixes},
          fail \in TransactFaults :
          /\ Len(createKeyInserted(api_keys, u, draws)) <= MaxFwdKeys
          /\ CreateKeyThrows(u, draws, fail)
    \/ \E u \in {1}, k \in 1..MaxFwdKeys :
          audits.n < MaxFaultAudits /\ RevokeKey(u, k)
    \/ \E u \in {1}, k \in 1..MaxFwdKeys, fail \in TransactFaults :
          k <= Len(api_keys) /\ RevokeKeyThrows(u, k, fail)
    \/ \E req \in FwdRequests, i \in issued :
          audits.n < MaxFaultAudits /\ ProxyRequest(req, <<i.key>>)
    \/ \E req \in FwdRequests, i \in issued, fail \in TransactFaults \cup {"touch"} :
          ProxyRequestThrows(req, <<i.key>>, fail)
    \/ \E c \in upstream, status \in {200} : UpstreamResponds(c, status)
    \/ \E c \in {1} : audits.n < MaxFaultAudits /\ Len(otps) < MaxOtps
                        /\ PostLogin(1, c, TRUE)
    \/ \E c \in {1}, fail \in TransactFaults :
          audits.n < MaxFaultAudits /\ Len(otps) < MaxOtps /\ PostLoginThrows(1, c, fail)
    \/ \E c \in {1} : audits.n < MaxFaultAudits /\ PostVerify(1, c)
    \/ \E c \in {1}, fail \in TransactFaults : PostVerifyThrows(1, c, fail)

SpecFaults == Init /\ [][NextFaults]_vars

(* Verification with several codes of one email, in both modes *)

MaxVerifyOtps == 3      \* rows of otps in the verification runs

NextVerify ==
    \/ \E c \in Codes : Len(otps) < MaxVerifyOtps /\ IssueOtp(1, c)
    \/ \E c \in Codes : VerifyOtp(1, c)
    \/ \E t \in OtpInstants : t <= MaxOtpTime /\ Tick(t)

SpecVerify == InitOtp /\ [][NextVerify]_vars

(* Issuance alone, over more than an hour *)

RateInstants ==
    {otps[i].created_at + d : i \in 1..Len(otps),
        d \in {OTP_MIN_RESEND_SECONDS - 1, OTP_MIN_RESEND_SECONDS,
               HourSeconds, HourSeconds + 1}}

NextRate ==
    \/ \E e \in Emails, c \in {1} : Len(otps) < MaxRateOtps /\ IssueOtp(e, c)
    \/ \E t \in RateInstants : t <= MaxRateTime /\ Tick(t)

SpecRate == Init /\ [][NextRate]_vars

(* One email over more than two hours: more unconsumed rows than the *)
(* lookback of verifyOtp                                             *)

\* The instants at which the next issuance can become possible or the newest
\* code expires: the end of the cooldown of the newest row, its expiry and
\* the second after, and the instant the fifth newest row leaves the
\* trailing hour
LookbackInstants ==
    {otps[i].created_at + d : i \in {Len(otps)} \ {0},
        d \in {OTP_MIN_RESEND_SECONDS, OTP_TTL_MINUTES * MinuteSeconds,
               OTP_TTL_MINUTES * MinuteSeconds + 1}}
    \cup {otps[i].created_at + HourSeconds + 1 :
             i \in {Len(otps) - (OTP_MAX_PER_HOUR - 1)} \ (-OTP_MAX_PER_HOUR..0)}

NextLookback ==
    \/ \E c \in {1} : Len(otps) < MaxLookbackOtps /\ IssueOtp(1, c)
    \/ \E c \in {2} : VerifyOtp(1, c)
    \/ \E t \in LookbackInstants : t <= MaxLookbackTime /\ Tick(t)

SpecLookback == Init /\ [][NextLookback]_vars

-----------------------------------------------------------------------------
(* Properties of the OTP flow, checked under SpecOtp *)

\* C3: after verifyOtp(email, code) has succeeded, a further verifyOtp with
\* the same email and code fails, unless that code was issued again for the
\* email in between.
C3_ConsumedCodeNeverVerifiesAgain ==
    [][(last'.op = "verifyOtp" /\ last'.ok /\ otps' # otps)
       => <<last'.email, last'.code>> \notin spent]_vars

\* C4: verifyOtp never marks an expired row consumed, and never succeeds
\* when every unconsumed OTP of the email was issued more than 10 minutes ago.
C4_ExpiredNeverVerifies ==
    [][/\ \A i \in 1..Len(otps) :
              (otps[i].consumed_at = NULL /\ otps'[i].consumed_at # NULL)
                  => otps[i].expires_at >= now
       /\ (last'.op = "verifyOtp" /\ last'.ok /\ otps' # otps)
              => \E i \in 1..Len(otps) :
                     /\ otps[i].email = last'.email
                     /\ otps[i].consumed_at = NULL
                     /\ now - otps[i].created_at <= 600]_vars

(* Properties of verification, checked under SpecVerify and SpecOtp *)

\* The active codes of an email: its rows that are unconsumed and unexpired
ActiveOtps(rows, email, t) ==
    {i \in otpIds(rows, email) : rows[i].consumed_at = NULL /\ ~(rows[i].expires_at < t)}

\* The rows among ids whose hash is the hash of the code
Matching(rows, ids, code) ==
    {i \in ids : scryptHash(code, rows[i].salt) = rows[i].code_hash}

\* This step is a successful verifyOtp for an email with several active
\* codes; it consumed the newest active row matching the code and nothing
\* else, and the code of every other active row verifies afterwards
ConsumedNewestMatch ==
    (/\ last'.op = "verifyOtp" /\ last'.ok /\ otps' # otps
     /\ Cardinality(ActiveOtps(otps, last'.email, now)) >= 2)
    => LET act == ActiveOtps(otps, last'.email, now)
           m == Matching(otps, act, last'.code)
       IN  /\ m # {}
           /\ otps' = [otps EXCEPT ![Max(m)].consumed_at = <<now>>]
           /\ \A j \in act \ {Max(m)} :
                  \E c \in Codes :
                      /\ j \in Matching(otps, act, c)
                      /\ verifyOtp(otps', lastOtpCache', production', last'.email, c, now).ok

\* What holds in production mode
ProductionConsumesNewestMatch == [][production => ConsumedNewestMatch]_vars

\* C29: when an email has several active codes, a successful verifyOtp
\* marks exactly one row consumed, the newest row whose hash matches the
\* supplied code, leaves every other row unchanged, and each other active
\* code still verifies afterwards.
C29_ConsumesNewestMatch == [][ConsumedNewestMatch]_vars

\* C30: a failing verifyOtp answers not_found exactly when the email has no
\* active code (no row both unconsumed and unexpired), and invalid_code
\* exactly when it has an active code and the supplied code matches none.
C30_FailureReasons ==
    (last.op = "verifyOtp" /\ ~last.ok)
        => LET act == ActiveOtps(otps, last.email, now)
           IN  /\ last.reason = "not_found" <=> act = {}
               /\ last.reason = "invalid_code"
                      <=> (act # {} /\ Matching(otps, act, last.code) = {})

\* The contents the cache can have: per email nothing, or a code
CacheContents ==
    [Emails -> {NULL} \cup {<<[code |-> c, expiresAt |-> 600]>> : c \in Codes}]

\* C31: in production mode, with the same otps rows and the same inputs,
\* verifyOtp answers the same and consumes the same row whatever the cache
\* holds, and the answer and the row of an issueOtp are those given by the
\* rows alone.
C31_CacheHasNoEffect ==
    /\ [](production =>
            \A cache \in CacheContents, e \in Emails, c \in Codes :
                verifyOtp(otps, cache, production, e, c, now)
                    = verifyOtp(otps, lastOtpCache, production, e, c, now))
    /\ [][(production /\ last'.op = "issueOtp" /\ last' # last) =>
             /\ last'.ok = canSendOtp(otps, last'.email, now).ok
             /\ IF last'.ok
                THEN /\ Len(otps') = Len(otps) + 1
                     /\ SubSeq(otps', 1, Len(otps)) = otps
                     /\ otps'[Len(otps')].code_hash
                            = scryptHash(last'.code[1], otps'[Len(otps')].salt)
                ELSE otps' = otps]_vars

\* C31's case: in production the cache holds the very code supplied, no row
\* matches it, and verifyOtp has failed
C31_Witness ==
    /\ production /\ last.op = "verifyOtp" /\ ~last.ok
    /\ lastOtpCache[last.email] # NULL
    /\ lastOtpCache[last.email][1].code = last.code
    /\ verifyCandidates(otps, last.email) # {}

\* The code of every unconsumed, unexpired row of the rows verifies at t
ActiveCodesVerify(rows, t) ==
    \A e \in Emails : \A i \in ActiveOtps(rows, e, t) : \A c \in Codes :
        scryptHash(c, rows[i].salt) = rows[i].code_hash
            => verifyOtp(rows, lastOtpCache, production, e, c, t).ok

\* C35: a failing verifyOtp changes no OTP row (there is no attempt count
\* and no lock), and after it, as in every state, the correct code of every
\* unconsumed, unexpired OTP verifies.
C35_FailedAttemptsChangeNothing ==
    /\ [][(last'.op = "verifyOtp" /\ ~last'.ok)
             => /\ otps' = otps
                /\ ActiveCodesVerify(otps', now')]_vars
    /\ []ActiveCodesVerify(otps, now)

\* C35's case: a verifyOtp has just failed with a wrong code for an email
\* that has two active OTPs, issued at different instants
C35_Witness ==
    /\ last.op = "verifyOtp" /\ ~last.ok /\ last.reason = "invalid_code"
    /\ \E i, j \in ActiveOtps(otps, last.email, now) :
           /\ i < j
           /\ scryptHash(last.code, otps[i].salt) # otps[i].code_hash
           /\ scryptHash(last.code, otps[j].salt) # otps[j].code_hash

(* Properties of the login page, checked under SpecLogin *)

\* C20: in production mode, a login whose OTP email is not delivered ends
\* in an error page, and the page does not show the code.
C20_DeliveryFailureIsError ==
    (production /\ last.op = "login" /\ last.issued /\ ~last.delivered)
        => /\ last.status >= 400
           /\ last.error # NULL
           /\ last.info = NULL \/ last.info[1].code = NULL

\* A step of POST /auth/verify
IsVerifyStep == last'.op = "verify" /\ (last' # last \/ audits' # audits)

\* C24: there is at most one users row per email; a step changes the users
\* table only if it is a POST /auth/verify whose verifyOtp succeeded, and
\* then the user of the email is created if there is none, else the
\* existing row is the user of the session; no row is removed or given
\* another email; a failed verification and an issuance leave the table
\* unchanged.
C24_UsersFromVerifiedLogins ==
    /\ [](\A i, j \in 1..Len(users) :
              users[i].id = i /\ (users[i].email = users[j].email => i = j))
    /\ [][/\ Len(users') >= Len(users)
          /\ \A i \in 1..Len(users) : users'[i].email = users[i].email
          /\ users' # users => IsVerifyStep /\ last'.ok
          /\ (IsVerifyStep /\ last'.ok) =>
                 IF getUserByEmail(users, last'.email) # NULL
                 THEN /\ Len(users') = Len(users)
                      /\ last'.userId = getUserByEmail(users, last'.email)[1].id
                 ELSE /\ Len(users') = Len(users) + 1
                      /\ users'[Len(users')].email = last'.email
                      /\ last'.userId = Len(users')]_vars

\* C24's case: in production an email has logged in twice, with two codes,
\* and has one users row
C24_Witness ==
    /\ production /\ last.op = "verify" /\ last.ok
    /\ Cardinality({i \in otpIds(otps, last.email) : otps[i].consumed_at # NULL}) = 2
    /\ Cardinality({i \in 1..Len(users) : users[i].email = last.email}) = 1
    /\ users[last.userId].last_login_at = <<now>>

(* Properties of the operations with a failing store, checked under       *)
(* SpecFaults                                                              *)

\* The tables of the operation that threw in this step are as before it
\* (the consumption of the OTP, done by verifyOtp before createUser is
\* called, is not createUser's)
ThrowLeftNoChange ==
    IF last'.of = "createUser" THEN users' = users
    ELSE UNCHANGED <<api_keys, usage_daily, otps, users>>

\* What holds of transact: a throw of fn or of the COMMIT is rolled back
RollbackRestores ==
    [][(last'.op = "throw" /\ last'.fail \in {"fn", "commit"}) => ThrowLeftNoChange]_vars

\* C26: when an operation wrapped in transact throws, at a statement of fn,
\* at the COMMIT or at the save to disk after the COMMIT, the tables are as
\* they were before the operation.
C26_ThrowLeavesStoreUnchanged ==
    [][(last'.op = "throw" /\ last'.fail \in TransactFaults) => ThrowLeftNoChange]_vars

\* What holds of createKey: a call that returns adds one row of the user and
\* returns its key, or adds nothing and returns failed_to_create, which it
\* does exactly when every attempt collides; a throw of an INSERT or of the
\* COMMIT adds nothing
CreateKeyOutcomes ==
    [][/\ (last'.op = "createKey" /\ last' # last) =>
              IF last'.ok
              THEN /\ Len(api_keys') = Len(api_keys) + 1
                   /\ SubSeq(api_keys', 1, Len(api_keys)) = api_keys
                   /\ api_keys'[Len(api_keys')].user_id = last'.userId
                   /\ ~UniqueViolation(api_keys, last'.userId,
                                       api_keys'[Len(api_keys')].key_prefix)
              ELSE /\ api_keys' = api_keys
                   /\ last'.reason = "failed_to_create"
                   /\ \E p \in Prefixes : UniqueViolation(api_keys, last'.userId, p)
       /\ (last'.op = "throw" /\ last'.of = "createKey" /\ last'.fail \in {"fn", "commit"})
              => api_keys' = api_keys]_vars

\* C27: createKey adds exactly one row of the user when it succeeds, adds
\* no row when it returns failed_to_create (every attempt collided), and
\* adds no row when it stops with another persistence failure.
C27_CreateKeyAddsOneRowOrNone ==
    [][/\ (last'.op = "createKey" /\ last' # last) =>
              IF last'.ok
              THEN /\ Len(api_keys') = Len(api_keys) + 1
                   /\ api_keys'[Len(api_keys')].user_id = last'.userId
              ELSE /\ api_keys' = api_keys
                   /\ last'.reason = "failed_to_create"
       /\ (last'.op = "throw" /\ last'.of = "createKey") => api_keys' = api_keys]_vars

\* C28: when touchKeyUsage fails for an admitted request, the request is
\* still audited (proxy_hit) and forwarded to the upstream.
C28_TouchFailureNotFatal ==
    [][(last'.op = "throw" /\ last'.of = "touchKeyUsage")
       => /\ audits' = logAudit(audits, <<last'.userId>>, "proxy_hit", NULL)
          /\ \E c \in upstream' \ upstream : c.userId = last'.userId]_vars

(* Properties of issuance, checked under SpecRate *)

\* A step that is one issueOtp call
IsIssueStep == last'.op = "issueOtp" /\ (last' # last \/ otps' # otps)

\* The successful issuances of an email in the 60 minutes up to now
TrailingHour(e) == {T \in okIssues[e] : T >= now - 3600}

\* C8: an issueOtp less than 120 s after a successful issueOtp for the same
\* email fails with rate_minute and creates no OTP; one made 120 s or more
\* after the latest success is not rejected with rate_minute.
C8_Cooldown ==
    [][IsIssueStep
       => IF \E T \in okIssues[last'.email] : now < T + 120
          THEN ~last'.ok /\ last'.reason = "rate_minute" /\ otps' = otps
          ELSE /\ last'.reason # "rate_minute"
               /\ last'.ok \/ Cardinality(TrailingHour(last'.email)) >= 5]_vars

\* C8's case: an issueOtp was just rejected 119 s after a successful one
C8_Witness ==
    /\ last.op = "issueOtp" /\ ~last.ok /\ last.reason = "rate_minute"
    /\ now - 119 \in okIssues[last.email]

\* Every window of 60 minutes holds at most 5 successful issuances of an email
C9_HourWindow ==
    \A e \in Emails : \A T \in okIssues[e] :
        Cardinality({T2 \in okIssues[e] : T <= T2 /\ T2 <= T + 3600}) <= 5

\* C9 as stated: at most 5 issueOtp calls succeed in any 60 minutes, and an
\* issueOtp made when 5 issuances lie in the trailing 60 minutes fails with
\* reason rate_hour.
C9_HourlyCapRateHour ==
    /\ []C9_HourWindow
    /\ [][(IsIssueStep /\ Cardinality(TrailingHour(last'.email)) >= 5)
          => ~last'.ok /\ last'.reason = "rate_hour"]_vars

\* C9 as amended: ... fails, with reason rate_minute when the latest
\* issuance is less than 120 s old and with reason rate_hour otherwise.
C9_HourlyCap ==
    /\ []C9_HourWindow
    /\ [][(IsIssueStep /\ Cardinality(TrailingHour(last'.email)) >= 5)
          => /\ ~last'.ok
             /\ otps' = otps
             /\ last'.reason =
                    IF \E T \in okIssues[last'.email] : now < T + 120
                    THEN "rate_minute" ELSE "rate_hour"]_vars

\* C9's case: an issueOtp was just rejected with rate_hour, 5 issuances
\* lying in the hour before it
C9_Witness ==
    /\ last.op = "issueOtp" /\ ~last.ok /\ last.reason = "rate_hour"
    /\ Cardinality(TrailingHour(last.email)) = 5

\* C38: a rejected issueOtp inserts no OTP row and changes no row, no
\* timestamp and no cache entry; whether an issueOtp is admitted depends
\* only on the successful issuances of its own email (none less than 120 s
\* old, fewer than 5 in the trailing hour), so rejected attempts neither
\* extend the cooldown nor count toward the hourly cap, and the issuances of
\* one email leave the rows of every other email as they were.
C38_RejectedIssueChangesNothing ==
    [][IsIssueStep =>
          /\ ~last'.ok => otps' = otps /\ lastOtpCache' = lastOtpCache
          /\ last'.ok <=> /\ \A T \in okIssues[last'.email] : now >= T + 120
                          /\ Cardinality(TrailingHour(last'.email)) < 5
          /\ \A e \in Emails \ {last'.email} :
                /\ otpIds(otps', e) = otpIds(otps, e)
                /\ \A i \in otpIds(otps, e) : otps'[i] = otps[i]
                /\ lastOtpCache'[e] = lastOtpCache[e]]_vars

\* C38's case: an issueOtp was just rejected for an email at an instant at
\* which the other email, issued to later, is still in its own cooldown
C38_Witness ==
    /\ last.op = "issueOtp" /\ ~last.ok
    /\ Cardinality(okIssues[last.email]) >= 2
    /\ \E e \in Emails \ {last.email} :
          \E T \in okIssues[e] : now < T + 120

(* Properties of the lookback, checked under SpecLookback *)

\* The unconsumed rows of an email
Unconsumed(rows, email) == {i \in otpIds(rows, email) : rows[i].consumed_at = NULL}

\* C39: every unconsumed, unexpired OTP of an email is among the 10 newest
\* unconsumed rows of that email, the rows verifyOtp looks at, and the
\* correct code of every such OTP verifies.
C39_LookbackCoversActive ==
    \A e \in Emails :
        /\ ActiveOtps(otps, e, now) \subseteq verifyCandidates(otps, e)
        /\ \A i \in ActiveOtps(otps, e, now) : \A c \in Codes :
              scryptHash(c, otps[i].salt) = otps[i].code_hash
                  => LET r == verifyOtp(otps, lastOtpCache, production, e, c, now)
                     IN  r.ok /\ r.id \in ActiveOtps(otps, e, now)

\* C39's case: a verifyOtp has just run for an email with more unconsumed
\* rows than the lookback, several of them active
C39_Witness ==
    /\ last.op = "verifyOtp"
    /\ Cardinality(Unconsumed(otps, last.email)) > VerifyLookback
    /\ verifyCandidates(otps, last.email) # Unconsumed(otps, last.email)
    /\ Cardinality(ActiveOtps(otps, last.email, now)) >= 2

====
